---------------------------- MODULE Spec2Model ----------------------------
(***************************************************************************)
(* Company-profile transactional data service (CompanyService) over a      *)
(* PostgreSQL table company_profile.                                       *)
(*                                                                         *)
(* Every request is a logical task that suspends at each awaited statement *)
(* (BEGIN, SELECT, INSERT/UPDATE/DELETE, COMMIT, ROLLBACK); requests       *)
(* interleave at those points.  The store runs each statement at the       *)
(* default isolation level READ COMMITTED: a statement reads the committed *)
(* table, the writes of a transaction become visible at its COMMIT, and a  *)
(* statement that writes a row waits while another open transaction holds  *)
(* an uncommitted write of that row.  The repository declares no table     *)
(* constraint (company_db.sql holds no DDL), so the table is modelled with *)
(* none.  `pool` in the service is taken to be the node-postgres Pool that *)
(* config/database creates: connect() checks a client out, query() runs    *)
(* one statement on a pooled client.  In Spec every statement succeeds;    *)
(* SpecFail adds the rejection of any statement of a transaction.  A       *)
(* rejected statement has no effect, and the store aborts the transaction  *)
(* of a connection that is lost.                                           *)
(***************************************************************************)
EXTENDS Integers, Sequences, FiniteSets, TLC

\* ------------------------------------------------------------------ bounds
MaxReq == 2      \* request slots that may be in flight together
MaxOwner == 2    \* user ids 1..MaxOwner
MaxId == 2       \* values the serial id of company_profile may take
MaxClock == 1    \* CURRENT_TIMESTAMP ranges over 0..MaxClock
MaxIssued == 3   \* requests received in one behaviour
MaxTotal == 25   \* rows that may match a search
MaxOtp == 2      \* verification ids that sendSMSOTP issues in one behaviour
MaxTime == 7     \* Date.now() ranges over minutes 0..MaxTime

Reqs == 1..MaxReq
Owners == 1..MaxOwner

\* ------------------------------------------------------------------ values
\* Text is a sequence of character codes; NULL and undefined are sentinels.
NULL == <<0>>
UNDEF == <<-1>>
EmptyStr == <<>>
EmptyObj == <<>>

NameUpper == <<65>>      \* "A"
NameLower == <<97>>      \* "a"
NameOther == <<66>>      \* "B"
CityX == <<88>>
CityP == <<80>>
ImgA == <<104, 65>>
ImgB == <<120, 66>>     \* an image hosted elsewhere
ImgC == <<104, 67>>

\* LOWER() of PostgreSQL on ASCII text
LowerChar(c) == IF c >= 65 /\ c <= 90 THEN c + 32 ELSE c
Lower(s) == [i \in DOMAIN s |-> LowerChar(s[i])]

\* JavaScript truthiness of a value (undefined, null and '' are falsy)
Truthy(v) == v \notin {UNDEF, NULL, EmptyStr}
\* a || null
OrNull(v) == IF Truthy(v) THEN v ELSE NULL
\* destructuring / property read: a missing key reads undefined
Prop(obj, k) == IF k \in DOMAIN obj THEN obj[k] ELSE UNDEF
\* node-postgres binds undefined as NULL
Bind(v) == IF v = UNDEF THEN NULL ELSE v

\* ------------------------------------------------------------------ schema
\* as allowedFields, with owner_id let through
allowedFields_withOwner ==
    {"company_name", "address", "city", "state", "country", "postal_code",
     "website", "logo_url", "banner_url", "industry", "founded_date",
     "description", "social_links", "owner_id"}

allowedFields ==
    {"company_name", "address", "city", "state", "country", "postal_code",
     "website", "logo_url", "banner_url", "industry", "founded_date",
     "description", "social_links"}

Columns == allowedFields \cup {"id", "owner_id", "created_at", "updated_at"}

allowedTypes == {"logo_url", "banner_url"}

\* ------------------------------------------------------------------ inputs
\* request bodies for POST /register: a full field set, varying in name and logo
FullProfile(name, logo) ==
    [company_name |-> name, address |-> <<49>>, city |-> CityP, state |-> <<83>>,
     country |-> <<67>>, postal_code |-> <<50>>, website |-> <<119>>,
     logo_url |-> logo, banner_url |-> ImgB, industry |-> <<73>>,
     founded_date |-> <<51>>, description |-> <<68>>, social_links |-> <<76>>]

\* the required fields only
MinimalProfile(name) ==
    [company_name |-> name, address |-> <<49>>, city |-> CityP, state |-> <<83>>,
     country |-> <<67>>, postal_code |-> <<50>>, industry |-> <<73>>]

CreatePayloads == {FullProfile(NameUpper, ImgA), MinimalProfile(NameOther)}

\* request bodies for PUT /profile
UpdatePayloads ==
    {[city |-> CityX],
     [city |-> CityX, owner_id |-> 999, id |-> 999, created_at |-> 999],
     [owner_id |-> 999],
     EmptyObj}
        \cup {[company_name |-> NameLower]}

ImageTypes == allowedTypes \cup {"company_name"}
ImageUrls == {ImgC}

\* ------------------------------------------------------------------ errors
NoErr == [statusCode |-> 0, code |-> ""]
\* createError(status, message) of http-errors
createError(status) == [statusCode |-> status, code |-> ""]

\* an error of the store or of the connection to it, no SQLSTATE the handler maps
StoreError == [statusCode |-> 0, code |-> "08006"]

\* the error a statement sent on a lost connection rejects with
ConnectionError == [statusCode |-> 0, code |-> "08003"]

\* the HTTP status errorHandler answers with
errorHandler(e) ==
    IF e.code = "23505" THEN 409
    ELSE IF e.code = "23503" THEN 400
    ELSE IF e.statusCode # 0 THEN e.statusCode
    ELSE 500

\* ------------------------------------------------------------------ state
VARIABLES
    table,     \* committed rows of company_profile
    nextId,    \* next value of the serial id
    now,       \* the store's clock
    pc,        \* per request: the statement it is suspended before
    op,        \* per request: the operation and its arguments
    ts,        \* per request: CURRENT_TIMESTAMP of its transaction
    oldProfile, \* per request: the image URLs the SELECT of a delete returned
    pend,      \* per request: uncommitted writes of its transaction
    ret,       \* per request: rows its INSERT/UPDATE returned (RETURNING)
    err,       \* per request: the error thrown, NoErr if none
    outcome,   \* per request: the response, status 0 until it is sent
    issued,    \* requests received so far
    client,    \* per request: "held" while it has a pooled client checked out
    txn,       \* per request: a transaction is open on its client
    released,  \* per request: calls of client.release()
    poolOpen,  \* clients that went back to the pool with a transaction open
    cleanup,   \* per request: the deleteImage calls it made and their state
    search,    \* the search request and its result
    otp        \* global.otpStore, Date.now() and the last OTP call's result

vars == <<table, nextId, now, pc, op, ts, oldProfile, pend, ret, err, outcome, issued,
          client, txn, released, poolOpen, cleanup, search, otp>>

NoOp == [kind |-> "none", userId |-> 0, data |-> EmptyObj,
         imageType |-> "", imageUrl |-> NULL, valid |-> TRUE]
NoPend == [ins |-> {}, upd |-> {}, del |-> {}]
NoOutcome == [status |-> 0, body |-> {}]
FilterOrder == <<"search", "industry", "city", "state", "country">>
FilterKeys == {FilterOrder[i] : i \in DOMAIN FilterOrder}

\* a query string that carries nothing
NoQuery == [page |-> UNDEF, limit |-> UNDEF, sortBy |-> "", sortOrder |-> UNDEF,
            search |-> UNDEF, industry |-> UNDEF, city |-> UNDEF, state |-> UNDEF,
            country |-> UNDEF]

NoSearch == [stage |-> "none", handler |-> "", query |-> NoQuery,
             filters |-> [k \in FilterKeys |-> EmptyStr],
             sortBy |-> "", sortOrder |-> EmptyStr,
             whereConditions |-> <<>>, queryParams |-> <<>>, countParams |-> <<>>,
             dataPlaceholders |-> {}, countPlaceholders |-> {},
             orderBy |-> [field |-> "", direction |-> EmptyStr],
             matching |-> 0, page |-> 0, limit |-> 0, offset |-> 0,
             companies |-> {}, totalRecords |-> 0, totalPages |-> 0,
             hasNextPage |-> FALSE, hasPrevPage |-> FALSE, status |-> 0]

NoOtp == [otpStore |-> {}, now |-> 0, sent |-> 0,
          result |-> [call |-> "", verificationId |-> 0, otp |-> 0, outcome |-> ""]]

Init ==
    /\ table = {}
    /\ nextId = 1
    /\ now = 0
    /\ pc = [r \in Reqs |-> "idle"]
    /\ op = [r \in Reqs |-> NoOp]
    /\ ts = [r \in Reqs |-> 0]
    /\ oldProfile = [r \in Reqs |-> {}]
    /\ pend = [r \in Reqs |-> NoPend]
    /\ ret = [r \in Reqs |-> {}]
    /\ err = [r \in Reqs |-> NoErr]
    /\ outcome = [r \in Reqs |-> NoOutcome]
    /\ issued = 0
    /\ client = [r \in Reqs |-> "none"]
    /\ txn = [r \in Reqs |-> FALSE]
    /\ released = [r \in Reqs |-> 0]
    /\ poolOpen = 0
    /\ cleanup = [r \in Reqs |-> {}]
    /\ search = NoSearch
    /\ otp = NoOtp

\* ------------------------------------------------------------------ store
\* as RowsOfOwner, without the WHERE clause
RowsOfOwner_any(tbl, userId) == tbl

\* SELECT ... FROM company_profile WHERE owner_id = $1
RowsOfOwner(tbl, userId) == {row \in tbl : row.owner_id = userId}

\* rows on which request r holds an uncommitted UPDATE or DELETE
Locked(r) == {u.id : u \in pend[r].upd} \cup pend[r].del

\* a write of the rows `ids` by request r has to wait for another transaction
Blocked(r, ids) == \E r2 \in Reqs \ {r} : Locked(r2) \cap ids # {}

\* the table after COMMIT of the writes p
Committed(tbl, p) ==
    {row \in tbl : row.id \notin p.del /\ row.id \notin {u.id : u \in p.upd}}
        \cup p.upd \cup p.ins

\* shorthand: the function f with f[r] replaced by v
Set(f, r, v) == [f EXCEPT ![r] = v]

\* a slot takes a new request when it runs none
Free(r) == pc[r] \in {"idle", "done"} /\ issued < MaxIssued

\* ------------------------------------------------------------------ requests
\* a request enters with operation o and nothing yet read, written or answered;
\* e is the error its first statement threw, NoErr if it threw none
EnterWith(r, o, at, e) ==
    /\ Free(r)
    /\ op' = Set(op, r, o)
    /\ pc' = Set(pc, r, at)
    /\ oldProfile' = Set(oldProfile, r, {})
    /\ ret' = Set(ret, r, {})
    /\ err' = Set(err, r, e)
    /\ outcome' = Set(outcome, r, NoOutcome)
    /\ issued' = issued + 1
    /\ released' = Set(released, r, 0)
    /\ cleanup' = Set(cleanup, r, {})
    /\ UNCHANGED <<poolOpen, search, otp>>

Enter(r, o, at) == EnterWith(r, o, at, NoErr)

\* a value returned or an error passed to next(): the response is sent
Respond(r, status, body) ==
    /\ outcome' = Set(outcome, r, [status |-> status, body |-> body])
    /\ pc' = Set(pc, r, "done")
    /\ oldProfile' = Set(oldProfile, r, {})
    /\ ret' = Set(ret, r, {})
    /\ ts' = Set(ts, r, 0)

\* the store's clock is read as t: it has not gone back since it was last read
Clock(t) == t \in now..MaxClock /\ now' = t

\* pool.connect(): a client is checked out; BEGIN opens a transaction on it
Acquire(r) ==
    /\ client' = Set(client, r, "held")
    /\ txn' = Set(txn, r, TRUE)

\* as Release, with the client kept
Release_skipped(r) ==
    /\ client' = client
    /\ released' = released

\* client.release(): the client goes back to the pool, with or without a
\* transaction still open on it
Release(r) ==
    /\ client' = Set(client, r, "none")
    /\ released' = Set(released, r, released[r] + 1)

\* pool.connect(); BEGIN: the transaction's CURRENT_TIMESTAMP is fixed here
Begin(r, o) ==
    /\ Enter(r, o, "select")
    /\ Acquire(r)
    /\ \E t \in 0..MaxClock : Clock(t) /\ ts' = Set(ts, r, t)
    /\ UNCHANGED <<table, nextId, pend>>

\* throw inside the try block: control goes to the catch block's ROLLBACK
Throw(r, e) ==
    /\ err' = Set(err, r, e)
    /\ pc' = Set(pc, r, "rollback")

\* COMMIT, then the value is returned
Commit(r, status, body) ==
    /\ pc[r] = "commit"
    /\ table' = Committed(table, pend[r])
    /\ pend' = Set(pend, r, NoPend)
    /\ txn' = Set(txn, r, FALSE)
    /\ Release(r)
    /\ Respond(r, status, body)
    /\ UNCHANGED <<nextId, now, op, err, issued, poolOpen, search, otp>>

\* as Rollback, with the writes of the transaction applied to the table
Rollback_keepsWrites(r) ==
    /\ pc[r] = "rollback"
    /\ table' = Committed(table, pend[r])
    /\ pend' = Set(pend, r, NoPend)
    /\ txn' = Set(txn, r, FALSE)
    /\ Release(r)
    /\ Respond(r, errorHandler(err[r]), {})
    /\ UNCHANGED <<nextId, now, op, err, issued, poolOpen, cleanup, search, otp>>

\* catch: ROLLBACK, rethrow; finally: release; errorHandler answers
Rollback(r) ==
    /\ pc[r] = "rollback"
    /\ pend' = Set(pend, r, NoPend)
    /\ txn' = Set(txn, r, FALSE)
    /\ Release(r)
    /\ Respond(r, errorHandler(err[r]), {})
    /\ UNCHANGED <<table, nextId, now, op, err, issued, poolOpen, cleanup, search, otp>>

\* ---------------------------------------------------- statements that fail
TxnKinds == {"create", "update", "delete"}

\* client.query('BEGIN') rejects: the catch block is entered with no
\* transaction open
BEGIN_fails(r) ==
    \E kind \in TxnKinds, userId \in Owners,
       data \in {EmptyObj, [city |-> CityX], MinimalProfile(NameOther)} :
        /\ data = (CASE kind = "create" -> MinimalProfile(NameOther)
                      [] kind = "update" -> [city |-> CityX]
                      [] OTHER -> EmptyObj)
        /\ EnterWith(r, [NoOp EXCEPT !.kind = kind, !.userId = userId, !.data = data],
                     "rollback", StoreError)
        /\ client' = Set(client, r, "held")
        /\ UNCHANGED <<table, nextId, now, ts, pend, txn>>

\* the SELECT, the INSERT / UPDATE / DELETE or the COMMIT of a transaction
\* rejects: the statement has no effect and the catch block is entered
query_fails(r) ==
    /\ pc[r] \in {"select", "write", "commit"} /\ op[r].kind \in TxnKinds
    /\ Throw(r, StoreError)
    /\ UNCHANGED <<table, nextId, now, op, ts, oldProfile, pend, ret, outcome, issued,
                   client, txn, released, poolOpen, cleanup, search, otp>>

\* client.query('ROLLBACK') in the catch block rejects: `throw error` is not
\* reached, the rejection of ROLLBACK leaves the function after finally has
\* released the client; the store aborts the transaction of the lost connection
ROLLBACK_fails(r) ==
    /\ pc[r] = "rollback" /\ op[r].kind \in TxnKinds
    /\ pend' = Set(pend, r, NoPend)
    /\ txn' = Set(txn, r, FALSE)
    /\ Release(r)
    /\ err' = Set(err, r, ConnectionError)
    /\ Respond(r, errorHandler(ConnectionError), {})
    /\ UNCHANGED <<table, nextId, now, op, issued, poolOpen, cleanup, search, otp>>

\* ---------------------------------------------------- CloudinaryService
\* imageUrl.includes('cloudinary.com'): the host is the character 104 of a URL
Includes(s, c) == \E i \in DOMAIN s : s[i] = c

IsCloudinaryUrl(imageUrl) == Truthy(imageUrl) /\ Includes(imageUrl, 104)

\* as deleteImage_settle, with a failed removal surfacing in the response
deleteImage_settle_throws(r) ==
    \E task \in cleanup[r], result \in {"ok", "error"} :
        /\ task.state = "pending"
        /\ cleanup' = Set(cleanup, r,
                          (cleanup[r] \ {task}) \cup {[task EXCEPT !.state = result]})
        /\ outcome' = Set(outcome, r,
                          [outcome[r] EXCEPT !.status =
                               IF result = "error" THEN 500 ELSE outcome[r].status])
        /\ UNCHANGED <<table, nextId, now, pc, op, ts, oldProfile, pend, ret, err,
                       issued, client, txn, released, poolOpen, search, otp>>

\* deleteImage up to its first await, for each truthy URL of urls: a URL that is
\* not Cloudinary's is answered at once, for any other uploader.destroy is sent
deleteImage_call(urls) ==
    {[url |-> u, state |-> IF IsCloudinaryUrl(u) THEN "pending" ELSE "skipped"] :
        u \in {v \in urls : Truthy(v)}}

\* uploader.destroy settles: deleteImage returns its result, or catches the
\* error and returns {result: 'error'}; nothing is thrown and nothing awaits it
deleteImage_settle(r) ==
    \E task \in cleanup[r], result \in {"ok", "error"} :
        /\ task.state = "pending"
        /\ cleanup' = Set(cleanup, r,
                          (cleanup[r] \ {task}) \cup {[task EXCEPT !.state = result]})
        /\ UNCHANGED <<table, nextId, now, pc, op, ts, oldProfile, pend, ret, err,
                       outcome, issued, client, txn, released, poolOpen, search, otp>>

\* ---------------------------------------------------- createCompanyProfile
\* the row INSERT ... VALUES ($1..$14, CURRENT_TIMESTAMP, CURRENT_TIMESTAMP) stores
\* as InsertRow, with banner_url left out of the statement
InsertRow_noBanner(id, userId, profileData, t) ==
    [c \in Columns |->
        IF c = "id" THEN id
        ELSE IF c = "owner_id" THEN userId
        ELSE IF c \in {"created_at", "updated_at"} THEN t
        ELSE IF c = "banner_url" THEN NULL
        ELSE IF c \in {"website", "logo_url", "founded_date", "description",
                       "social_links"}
           THEN OrNull(Prop(profileData, c))
        ELSE Bind(Prop(profileData, c))]

InsertRow(id, userId, profileData, t) ==
    [id |-> id,
     owner_id |-> userId,
     company_name |-> Bind(Prop(profileData, "company_name")),
     address |-> Bind(Prop(profileData, "address")),
     city |-> Bind(Prop(profileData, "city")),
     state |-> Bind(Prop(profileData, "state")),
     country |-> Bind(Prop(profileData, "country")),
     postal_code |-> Bind(Prop(profileData, "postal_code")),
     website |-> OrNull(Prop(profileData, "website")),
     logo_url |-> OrNull(Prop(profileData, "logo_url")),
     banner_url |-> OrNull(Prop(profileData, "banner_url")),
     industry |-> Bind(Prop(profileData, "industry")),
     founded_date |-> OrNull(Prop(profileData, "founded_date")),
     description |-> OrNull(Prop(profileData, "description")),
     social_links |-> OrNull(Prop(profileData, "social_links")),
     created_at |-> t,
     updated_at |-> t]

\* creates that have not yet drawn their id from the sequence
CreatesAhead ==
    Cardinality({r \in Reqs : op[r].kind = "create" /\ pc[r] \in {"select", "write"}})

createCompanyProfile_begin(r) ==
    \E userId \in Owners, profileData \in CreatePayloads :
        /\ nextId + CreatesAhead <= MaxId
        /\ Begin(r, [NoOp EXCEPT !.kind = "create", !.userId = userId,
                                 !.data = profileData])

\* as createCompanyProfile_select, without the throw on an existing profile
createCompanyProfile_select_nocheck(r) ==
    /\ pc[r] = "select" /\ op[r].kind = "create"
    /\ pc' = Set(pc, r, "write")
    /\ UNCHANGED <<table, nextId, now, op, ts, oldProfile, pend, ret, err, outcome, issued,
                   client, txn, released, poolOpen, cleanup, search, otp>>

\* SELECT id ... WHERE owner_id = $1; 409 when a row comes back
createCompanyProfile_select(r) ==
    /\ pc[r] = "select" /\ op[r].kind = "create"
    /\ LET existingProfile == RowsOfOwner(table, op[r].userId) IN
        IF existingProfile # {}
           THEN Throw(r, createError(409))
           ELSE pc' = Set(pc, r, "write") /\ err' = err
    /\ UNCHANGED <<table, nextId, now, op, ts, oldProfile, pend, ret, outcome, issued,
                   client, txn, released, poolOpen, cleanup, search, otp>>

\* INSERT ... RETURNING *
createCompanyProfile_insert(r) ==
    /\ pc[r] = "write" /\ op[r].kind = "create"
    /\ LET row == InsertRow(nextId, op[r].userId, op[r].data, ts[r]) IN
        /\ pend' = Set(pend, r, [pend[r] EXCEPT !.ins = {row}])
        /\ ret' = Set(ret, r, {row})
    /\ nextId' = nextId + 1
    /\ pc' = Set(pc, r, "commit")
    /\ UNCHANGED <<table, now, op, ts, oldProfile, err, outcome, issued,
                   client, txn, released, poolOpen, cleanup, search, otp>>

\* COMMIT; return result.rows[0]; register answers 201
createCompanyProfile_commit(r) ==
    /\ op[r].kind = "create"
    /\ Commit(r, 201, ret[r])
    /\ cleanup' = cleanup

createCompanyProfile_rollback(r) ==
    /\ op[r].kind = "create"
    /\ Rollback(r)

\* ---------------------------------------------------- isCompanyNameAvailable
\* if (excludeUserId): 0 and null add no owner_id != $2 predicate
isCompanyNameAvailable(tbl, companyName, excludeUserId) ==
    LET rows == {row \in tbl :
                    /\ row.company_name # NULL
                    /\ Lower(row.company_name) = Lower(companyName)
                    /\ (excludeUserId # 0 => row.owner_id # excludeUserId)}
    IN rows = {}

\* ---------------------------------------------------- updateCompanyProfile
\* the allow-listed fields the payload has as own properties: the SET clause
UpdateColumns(updateData) ==
    {field \in allowedFields : field \in DOMAIN updateData}

\* as UpdatedRow, with every allow-listed field in the SET clause, a missing
\* one bound as NULL
UpdatedRow_allFields(row, updateData, t) ==
    [c \in Columns |->
        IF c \in allowedFields THEN Bind(Prop(updateData, c))
        ELSE IF c = "updated_at" THEN t
        ELSE row[c]]

\* a row after UPDATE ... SET <fields>, updated_at = CURRENT_TIMESTAMP; the
\* values are own properties of the parsed JSON body, none of them undefined
UpdatedRow(row, updateData, t) ==
    [c \in Columns |->
        IF c \in UpdateColumns(updateData) THEN updateData[c]
        ELSE IF c = "updated_at" THEN t
        ELSE row[c]]

\* PUT /profile: a truthy company_name is checked for availability first
updateProfile_begin(r) ==
    \E userId \in Owners, updateData \in UpdatePayloads :
        LET o == [NoOp EXCEPT !.kind = "update", !.userId = userId,
                              !.data = updateData] IN
        IF Truthy(Prop(updateData, "company_name"))
            THEN /\ Enter(r, o, "namecheck")
                 /\ UNCHANGED <<table, nextId, now, ts, pend, client, txn>>
            ELSE Begin(r, o)

\* isCompanyNameAvailable(name, userId); 409 when taken, else the service is
\* called: pool.connect(), BEGIN
updateProfile_namecheck(r) ==
    /\ pc[r] = "namecheck" /\ op[r].kind = "update"
    /\ IF isCompanyNameAvailable(table, op[r].data.company_name, op[r].userId)
          THEN /\ pc' = Set(pc, r, "select")
               /\ Acquire(r)
               /\ \E t \in 0..MaxClock : Clock(t) /\ ts' = Set(ts, r, t)
               /\ UNCHANGED <<err, outcome, oldProfile, ret>>
          ELSE /\ err' = Set(err, r, createError(409))
               /\ Respond(r, errorHandler(createError(409)), {})
               /\ UNCHANGED <<now, client, txn>>
    /\ UNCHANGED <<table, nextId, op, pend, issued, released, poolOpen, cleanup, search, otp>>

\* as updateCompanyProfile_select, without the throw on an empty SET clause
updateCompanyProfile_select_noEmptyCheck(r) ==
    /\ pc[r] = "select" /\ op[r].kind = "update"
    /\ LET existingProfile == RowsOfOwner(table, op[r].userId) IN
        IF existingProfile = {}
           THEN Throw(r, createError(404))
           ELSE pc' = Set(pc, r, "write") /\ err' = err
    /\ UNCHANGED <<table, nextId, now, op, ts, oldProfile, pend, ret, outcome, issued,
                   client, txn, released, poolOpen, cleanup, search, otp>>

\* SELECT id ... WHERE owner_id = $1; 404 when none; build the SET clause;
\* 400 when it is empty
updateCompanyProfile_select(r) ==
    /\ pc[r] = "select" /\ op[r].kind = "update"
    /\ LET existingProfile == RowsOfOwner(table, op[r].userId) IN
        IF existingProfile = {}
           THEN Throw(r, createError(404))
           ELSE IF UpdateColumns(op[r].data) = {}
                   THEN Throw(r, createError(400))
                   ELSE pc' = Set(pc, r, "write") /\ err' = err
    /\ UNCHANGED <<table, nextId, now, op, ts, oldProfile, pend, ret, outcome, issued,
                   client, txn, released, poolOpen, cleanup, search, otp>>

\* UPDATE ... WHERE owner_id = $n RETURNING *; result.rows[0] is any of the
\* rows written, undefined when none was
updateCompanyProfile_update(r) ==
    /\ pc[r] = "write" /\ op[r].kind = "update"
    /\ LET targets == RowsOfOwner(table, op[r].userId)
           written == {UpdatedRow(row, op[r].data, ts[r]) : row \in targets}
       IN
        /\ ~Blocked(r, {row.id : row \in targets})
        /\ pend' = Set(pend, r, [pend[r] EXCEPT !.upd = written])
        /\ IF written = {}
              THEN ret' = Set(ret, r, {})
              ELSE \E row \in written : ret' = Set(ret, r, {row})
    /\ pc' = Set(pc, r, "commit")
    /\ UNCHANGED <<table, nextId, now, op, ts, oldProfile, err, outcome, issued,
                   client, txn, released, poolOpen, cleanup, search, otp>>

updateCompanyProfile_commit(r) ==
    /\ op[r].kind = "update"
    /\ Commit(r, 200, ret[r])
    /\ cleanup' = cleanup

updateCompanyProfile_rollback(r) ==
    /\ op[r].kind = "update"
    /\ Rollback(r)

\* ---------------------------------------------------- updateCompanyImage
\* a row after UPDATE ... SET <imageType> = $1, updated_at = CURRENT_TIMESTAMP
\* as ImageRow, with the URL written to both image columns
ImageRow_bothColumns(row, imageType, imageUrl, t) ==
    [c \in Columns |->
        IF c \in {"logo_url", "banner_url"} THEN Bind(imageUrl)
        ELSE IF c = "updated_at" THEN t
        ELSE row[c]]

ImageRow(row, imageType, imageUrl, t) ==
    [c \in Columns |->
        IF c = imageType THEN Bind(imageUrl)
        ELSE IF c = "updated_at" THEN t
        ELSE row[c]]

updateCompanyImage_begin(r) ==
    \E userId \in Owners, imageType \in ImageTypes, imageUrl \in ImageUrls :
        /\ Enter(r, [NoOp EXCEPT !.kind = "image", !.userId = userId,
                                 !.imageType = imageType, !.imageUrl = imageUrl],
                 "query")
        /\ UNCHANGED <<table, nextId, now, ts, pend, client, txn>>

\* 400 for a type outside allowedTypes, before any statement; else one UPDATE
\* on the pool, 404 when it wrote no row; returns id and the image column of
\* rows[0]
updateCompanyImage_query(r) ==
    /\ pc[r] = "query" /\ op[r].kind = "image"
    /\ LET targets == RowsOfOwner(table, op[r].userId) IN
        IF op[r].imageType \notin allowedTypes
           THEN /\ err' = Set(err, r, createError(400))
                /\ Respond(r, errorHandler(createError(400)), {})
                /\ UNCHANGED <<table, now>>
           ELSE /\ ~Blocked(r, {row.id : row \in targets})
                /\ \E t \in 0..MaxClock :
                    LET written == {ImageRow(row, op[r].imageType, op[r].imageUrl, t) :
                                        row \in targets}
                    IN
                    /\ Clock(t)
                    /\ table' = (table \ targets) \cup written
                    /\ IF written = {}
                          THEN /\ err' = Set(err, r, createError(404))
                               /\ Respond(r, errorHandler(createError(404)), {})
                          ELSE /\ err' = err
                               /\ \E row \in written :
                                     Respond(r, 200,
                                         {[id |-> row.id,
                                           url |-> row[op[r].imageType]]})
    /\ UNCHANGED <<nextId, op, pend, issued, client, txn, released, poolOpen,
                   cleanup, search, otp>>

\* ---------------------------------------------------- deleteCompanyProfile
deleteCompanyProfile_begin(r) ==
    \E userId \in Owners :
        /\ Free(r)
        /\ Begin(r, [NoOp EXCEPT !.kind = "delete", !.userId = userId])

\* as deleteCompanyProfile_select, with the two image columns taken for each other
deleteCompanyProfile_select_swapped(r) ==
    /\ pc[r] = "select" /\ op[r].kind = "delete"
    /\ LET profileResult == RowsOfOwner(table, op[r].userId) IN
        IF profileResult = {}
           THEN /\ oldProfile' = Set(oldProfile, r, {})
                /\ Throw(r, createError(404))
           ELSE /\ \E row \in profileResult :
                      oldProfile' = Set(oldProfile, r,
                                        {[logo_url |-> row.banner_url,
                                          banner_url |-> row.logo_url]})
                /\ pc' = Set(pc, r, "write")
                /\ err' = err
    /\ UNCHANGED <<table, nextId, now, op, ts, pend, ret, outcome, issued,
                   client, txn, released, poolOpen, cleanup, search, otp>>

\* SELECT logo_url, banner_url ... WHERE owner_id = $1; 404 when none;
\* oldProfile is rows[0], any of the rows returned
deleteCompanyProfile_select(r) ==
    /\ pc[r] = "select" /\ op[r].kind = "delete"
    /\ LET profileResult == RowsOfOwner(table, op[r].userId) IN
        IF profileResult = {}
           THEN /\ oldProfile' = Set(oldProfile, r, {})
                /\ Throw(r, createError(404))
           ELSE /\ \E row \in profileResult :
                      oldProfile' = Set(oldProfile, r,
                                        {[logo_url |-> row.logo_url,
                                          banner_url |-> row.banner_url]})
                /\ pc' = Set(pc, r, "write")
                /\ err' = err
    /\ UNCHANGED <<table, nextId, now, op, ts, pend, ret, outcome, issued,
                   client, txn, released, poolOpen, cleanup, search, otp>>

\* DELETE FROM company_profile WHERE owner_id = $1
deleteCompanyProfile_delete(r) ==
    /\ pc[r] = "write" /\ op[r].kind = "delete"
    /\ LET targets == {row.id : row \in RowsOfOwner(table, op[r].userId)} IN
        /\ ~Blocked(r, targets)
        /\ pend' = Set(pend, r, [pend[r] EXCEPT !.del = targets])
    /\ pc' = Set(pc, r, "commit")
    /\ UNCHANGED <<table, nextId, now, op, ts, oldProfile, ret, err, outcome, issued,
                   client, txn, released, poolOpen, cleanup, search, otp>>

\* COMMIT; return {deleted: true, oldImageUrls: {logo_url, banner_url}};
\* deleteProfile then calls deleteImage for each URL that is truthy, does not
\* await the calls and answers
deleteCompanyProfile_commit(r) ==
    /\ op[r].kind = "delete"
    /\ Commit(r, 200, oldProfile[r])
    /\ cleanup' = Set(cleanup, r,
                      UNION {deleteImage_call({o.logo_url, o.banner_url}) :
                                o \in oldProfile[r]})

deleteCompanyProfile_rollback(r) ==
    /\ op[r].kind = "delete"
    /\ Rollback(r)

\* ------------------------------------- CompanyController.updateProfile (src/)
\* The controller under src/ runs its own statements on a client it checks
\* out; it names the owner column user_id.
liveAllowedFields ==
    {"company_name", "industry", "description", "website", "phone", "email",
     "address_line1", "address_line2", "city", "state", "postal_code", "country"}

\* request bodies: valid or not for validateCompanyProfileUpdate
LiveUpdatePayloads ==
    {[city |-> CityX], [company_name |-> NameOther], [company_name |-> NameLower],
     EmptyObj}

\* updateData[field] !== undefined
LiveUpdateColumns(updateData) ==
    {field \in liveAllowedFields : Prop(updateData, field) # UNDEF}

\* a row after UPDATE ... SET <fields>, updated_at = NOW()
LiveUpdatedRow(row, updateData, t) ==
    [c \in Columns |->
        IF c \in LiveUpdateColumns(updateData) THEN updateData[c]
        ELSE IF c = "updated_at" THEN t
        ELSE row[c]]

\* getClient(); BEGIN
updateProfile_live_begin(r) ==
    \E userId \in Owners, updateData \in LiveUpdatePayloads, valid \in BOOLEAN :
        /\ Free(r)
        /\ Begin(r, [NoOp EXCEPT !.kind = "liveUpdate", !.userId = userId,
                                 !.data = updateData, !.valid = valid])

\* validationResult(req): when it has errors 400 is answered and the function
\* returns from inside try, so finally releases the client and neither COMMIT
\* nor ROLLBACK is sent.  Else the name check, if company_name is truthy:
\* SELECT id ... WHERE company_name = $1 AND user_id != $2, 409 when a row
\* comes back; then the SET clause is built, 400 when it is empty
updateProfile_live_check(r) ==
    /\ pc[r] = "select" /\ op[r].kind = "liveUpdate"
    /\ LET updateData == op[r].data
           nameCheckResult ==
               {row \in table : /\ row.company_name = Prop(updateData, "company_name")
                                /\ row.owner_id # op[r].userId}
       IN
        IF ~op[r].valid
           THEN /\ Respond(r, 400, {})
                /\ Release(r)
                /\ txn' = Set(txn, r, FALSE)
                /\ poolOpen' = poolOpen + 1
                /\ UNCHANGED err
           ELSE /\ IF Truthy(Prop(updateData, "company_name")) /\ nameCheckResult # {}
                      THEN Throw(r, createError(409))
                      ELSE IF LiveUpdateColumns(updateData) = {}
                              THEN Throw(r, createError(400))
                              ELSE pc' = Set(pc, r, "write") /\ err' = err
                /\ UNCHANGED <<ts, oldProfile, ret, outcome, client, txn, released,
                               poolOpen>>
    /\ UNCHANGED <<table, nextId, now, op, pend, issued, cleanup, search, otp>>

\* UPDATE ... WHERE user_id = $n RETURNING *; 404 when no row was written
updateProfile_live_update(r) ==
    /\ pc[r] = "write" /\ op[r].kind = "liveUpdate"
    /\ LET targets == RowsOfOwner(table, op[r].userId)
           written == {LiveUpdatedRow(row, op[r].data, ts[r]) : row \in targets}
       IN
        /\ ~Blocked(r, {row.id : row \in targets})
        /\ pend' = Set(pend, r, [pend[r] EXCEPT !.upd = written])
        /\ IF written = {}
              THEN Throw(r, createError(404)) /\ ret' = ret
              ELSE /\ \E row \in written : ret' = Set(ret, r, {row})
                   /\ pc' = Set(pc, r, "commit")
                   /\ err' = err
    /\ UNCHANGED <<table, nextId, now, op, ts, oldProfile, outcome, issued,
                   client, txn, released, poolOpen, cleanup, search, otp>>

\* COMMIT; res.json
updateProfile_live_commit(r) ==
    /\ op[r].kind = "liveUpdate"
    /\ Commit(r, 200, ret[r])
    /\ cleanup' = cleanup

\* catch: ROLLBACK; next(error); finally: release
updateProfile_live_rollback(r) ==
    /\ op[r].kind = "liveUpdate"
    /\ Rollback(r)

\* ------------------------------------------------ getCompanyProfileByUserId
\* rows of the owner joined with the owner's users row, which the foreign key
\* of owner_id guarantees; null (no row) when there is none
ProfileByUserId(tbl, userId) == RowsOfOwner(tbl, userId)

getCompanyProfileByUserId_begin(r) ==
    \E userId \in Owners :
        /\ Enter(r, [NoOp EXCEPT !.kind = "get", !.userId = userId], "query")
        /\ UNCHANGED <<table, nextId, now, ts, pend, client, txn>>

\* GET /profile: 404 when the service returns null, else rows[0]
getCompanyProfileByUserId_query(r) ==
    /\ pc[r] = "query" /\ op[r].kind = "get"
    /\ LET rows == ProfileByUserId(table, op[r].userId) IN
        IF rows = {}
           THEN /\ err' = Set(err, r, createError(404))
                /\ Respond(r, errorHandler(createError(404)), {})
           ELSE /\ err' = err
                /\ \E row \in rows : Respond(r, 200, {row})
    /\ UNCHANGED <<table, nextId, now, op, pend, issued, client, txn, released,
                   poolOpen, cleanup, search, otp>>

\* ------------------------------------------------ uploadLogo / uploadBanner
\* req.file, when multer parsed one
File == [file |-> <<1>>]

uploadImage_begin(r) ==
    \E userId \in Owners, imageType \in allowedTypes, valid \in BOOLEAN,
       body \in {File, EmptyObj} :
        /\ valid \/ body = File
        /\ Enter(r, [NoOp EXCEPT !.kind = "upload", !.userId = userId,
                                 !.imageType = imageType, !.valid = valid,
                                 !.data = body],
                 "getprofile")
        /\ UNCHANGED <<table, nextId, now, ts, pend, client, txn>>

\* 400 is answered when validation failed, 400 is thrown when there is no
\* file; getCompanyProfileByUserId, 404 when it returns null; the URL the
\* profile holds is kept as oldLogoUrl / oldBannerUrl
uploadImage_getProfile(r) ==
    /\ pc[r] = "getprofile" /\ op[r].kind = "upload"
    /\ LET currentProfile == ProfileByUserId(table, op[r].userId) IN
        IF ~op[r].valid
           THEN Respond(r, 400, {}) /\ err' = err
           ELSE IF "file" \notin DOMAIN op[r].data
           THEN /\ err' = Set(err, r, createError(400))
                /\ Respond(r, errorHandler(createError(400)), {})
           ELSE IF currentProfile = {}
           THEN /\ err' = Set(err, r, createError(404))
                /\ Respond(r, errorHandler(createError(404)), {})
           ELSE /\ \E row \in currentProfile :
                      oldProfile' = Set(oldProfile, r,
                                        {[logo_url |-> row.logo_url,
                                          banner_url |-> row.banner_url]})
                /\ pc' = Set(pc, r, "upload")
                /\ UNCHANGED <<err, ret, ts, outcome>>
    /\ UNCHANGED <<table, nextId, now, op, pend, issued, client, txn, released,
                   poolOpen, cleanup, search, otp>>

\* image URLs that the store, a request or a cleanup task holds
KnownUrls ==
    {row.logo_url : row \in table} \cup {row.banner_url : row \in table}
        \cup {op[r].imageUrl : r \in Reqs}
        \cup UNION {{task.url : task \in cleanup[r]} : r \in Reqs}
        \cup UNION {{o.logo_url, o.banner_url} : o \in UNION {oldProfile[r] : r \in Reqs}}

\* the secure_url of a new upload: the media host gives every upload a URL
\* of its own, ImgC to the first
RECURSIVE NewUrl(_)
NewUrl(n) == IF <<104, 67 + n>> \notin KnownUrls THEN <<104, 67 + n>> ELSE NewUrl(n + 1)

\* CloudinaryService.uploadImage: resolves with the new secure_url or rejects
\* with createError(500)
uploadImage_upload(r) ==
    /\ pc[r] = "upload" /\ op[r].kind = "upload"
    /\ \E uploaded \in BOOLEAN :
          IF uploaded
             THEN /\ op' = Set(op, r, [op[r] EXCEPT !.imageUrl = NewUrl(0)])
                  /\ pc' = Set(pc, r, "setimage")
                  /\ UNCHANGED <<err, oldProfile, ret, ts, outcome>>
             ELSE /\ err' = Set(err, r, createError(500))
                  /\ Respond(r, errorHandler(createError(500)), {})
                  /\ op' = op
    /\ UNCHANGED <<table, nextId, now, pend, issued, client, txn, released,
                   poolOpen, cleanup, search, otp>>

\* as uploadImage_setImage, with deleteImage called for the old URL whether or
\* not the new one was stored
uploadImage_setImage_alwaysDeletes(r) ==
    /\ pc[r] = "setimage" /\ op[r].kind = "upload"
    /\ err' = Set(err, r, StoreError)
    /\ Respond(r, errorHandler(StoreError), {})
    /\ cleanup' = Set(cleanup, r,
                      UNION {deleteImage_call({o[op[r].imageType]}) :
                                o \in oldProfile[r]})
    /\ UNCHANGED <<table, nextId, now, op, pend, issued, client, txn, released,
                   poolOpen, search, otp>>

\* updateCompanyImage(userId, type, secure_url): the UPDATE rejects, or writes
\* no row (404), or stores the URL; only then deleteImage is called for the old
\* URL if it is truthy, not awaited, and 200 is answered
uploadImage_setImage(r) ==
    /\ pc[r] = "setimage" /\ op[r].kind = "upload"
    /\ LET targets == RowsOfOwner(table, op[r].userId) IN
        \E stored \in BOOLEAN :
          IF ~stored
             THEN /\ err' = Set(err, r, StoreError)
                  /\ Respond(r, errorHandler(StoreError), {})
                  /\ UNCHANGED <<table, now, cleanup>>
             ELSE /\ ~Blocked(r, {row.id : row \in targets})
                  /\ \E t \in 0..MaxClock :
                      LET written == {ImageRow(row, op[r].imageType, op[r].imageUrl, t) :
                                          row \in targets}
                      IN
                      /\ Clock(t)
                      /\ table' = (table \ targets) \cup written
                      /\ IF written = {}
                            THEN /\ err' = Set(err, r, createError(404))
                                 /\ Respond(r, errorHandler(createError(404)), {})
                                 /\ cleanup' = cleanup
                            ELSE /\ err' = err
                                 /\ Respond(r, 200, {[url |-> op[r].imageUrl]})
                                 /\ cleanup' = Set(cleanup, r,
                                        UNION {deleteImage_call({o[op[r].imageType]}) :
                                                  o \in oldProfile[r]})
    /\ UNCHANGED <<nextId, op, pend, issued, client, txn, released, poolOpen, search, otp>>

\* ---------------------------------------------------------- searchCompanies
NaN == [nan |-> TRUE, val |-> 0]
Num(n) == [nan |-> FALSE, val |-> n]

IsDigit(c) == c >= 48 /\ c <= 57

RECURSIVE SkipSpace(_)
SkipSpace(s) == IF s # <<>> /\ Head(s) = 32 THEN SkipSpace(Tail(s)) ELSE s

\* the longest prefix of s made of digits
RECURSIVE DigitPrefix(_)
DigitPrefix(s) ==
    IF s # <<>> /\ IsDigit(Head(s)) THEN <<Head(s)>> \o DigitPrefix(Tail(s)) ELSE <<>>

RECURSIVE DigitsValue(_)
DigitsValue(d) ==
    IF d = <<>> THEN 0 ELSE 10 * DigitsValue(SubSeq(d, 1, Len(d) - 1)) + (d[Len(d)] - 48)

\* parseInt(string): leading blanks, an optional sign, then digits up to the
\* first other character; NaN when there is no digit, and for undefined
parseInt(v) ==
    IF v = UNDEF THEN NaN
    ELSE LET t == SkipSpace(v)
             signed == t # <<>> /\ Head(t) \in {43, 45}
             d == DigitPrefix(IF signed THEN Tail(t) ELSE t)
         IN IF d = <<>> THEN NaN
            ELSE IF signed /\ Head(t) = 45 THEN Num(0 - DigitsValue(d))
            ELSE Num(DigitsValue(d))

\* x || d for a number x: d when x is NaN or 0
OrDefault(x, d) == IF x.nan \/ x.val = 0 THEN d ELSE x.val

MathMin(a, b) == IF a < b THEN a ELSE b

\* as MathCeil, rounding down
MathCeil_floor(a, b) == a \div b

\* Math.ceil(a / b) for a >= 0 and b > 0
MathCeil(a, b) == IF a % b = 0 THEN a \div b ELSE (a \div b) + 1

\* req.query.page and req.query.limit as the route hands them over: absent or
\* the text of the query string, "1" "3" "4" "0" "-1" "abc" "2x" and
\* "10" "50" "60" "0" "-5" "1" " 7"
PageQueries == {UNDEF, <<49>>, <<51>>, <<52>>, <<48>>, <<45, 49>>, <<97, 98, 99>>,
                <<50, 120>>}
LimitQueries == {UNDEF, <<49, 48>>, <<53, 48>>, <<54, 48>>, <<48>>, <<45, 53>>,
                 <<49>>, <<32, 55>>}

\* the controller: GET /search carries no validation middleware; page and
\* limit are parsed from the query string
searchCompanies_begin ==
    /\ search.stage \in {"none", "done"}
    /\ \E p \in PageQueries, l \in LimitQueries, n \in 0..MaxTotal :
          search' = [NoSearch EXCEPT
                        !.stage = "service",
                        !.query = [NoQuery EXCEPT !.page = p, !.limit = l],
                        !.matching = n,
                        !.page = OrDefault(parseInt(p), 1),
                        !.limit = MathMin(OrDefault(parseInt(l), 10), 50)]
    /\ UNCHANGED <<table, nextId, now, pc, op, ts, oldProfile, pend, ret, err,
                   outcome, issued, client, txn, released, poolOpen, cleanup, otp>>

\* the service: offset, then the page and the count queries over the rows that
\* match, numbered 1..matching in the order of the sort; the store rejects a
\* negative LIMIT or OFFSET and the error handler answers 500
searchCompanies_query ==
    /\ search.stage = "service"
    /\ LET offset == (search.page - 1) * search.limit IN
        IF search.limit < 0 \/ offset < 0
           THEN search' = [search EXCEPT !.stage = "done", !.offset = offset,
                                         !.status = errorHandler(StoreError)]
           ELSE search' = [search EXCEPT
                              !.stage = "queried",
                              !.offset = offset,
                              !.companies = {i \in 1..search.matching :
                                                i > offset /\ i <= offset + search.limit},
                              !.totalRecords = search.matching]
    /\ UNCHANGED <<table, nextId, now, pc, op, ts, oldProfile, pend, ret, err,
                   outcome, issued, client, txn, released, poolOpen, cleanup, otp>>

\* the pagination returned with the rows, answered 200
searchCompanies_result ==
    /\ search.stage = "queried"
    /\ LET totalPages == MathCeil(search.totalRecords, search.limit) IN
        search' = [search EXCEPT
                      !.stage = "done",
                      !.totalPages = totalPages,
                      !.hasNextPage = search.page < totalPages,
                      !.hasPrevPage = search.page > 1,
                      !.status = 200]
    /\ UNCHANGED <<table, nextId, now, pc, op, ts, oldProfile, pend, ret, err,
                   outcome, issued, client, txn, released, poolOpen, cleanup, otp>>

\* ------------------------------------------- searchCompanies, the statements
ASC == <<65, 83, 67>>
DESC == <<68, 69, 83, 67>>

UpperChar(c) == IF c >= 97 /\ c <= 122 THEN c - 32 ELSE c
toUpperCase(s) == [i \in DOMAIN s |-> UpperChar(s[i])]

RECURSIVE TrimEnd(_)
TrimEnd(s) == IF s # <<>> /\ s[Len(s)] = 32 THEN TrimEnd(SubSeq(s, 1, Len(s) - 1)) ELSE s

\* String.prototype.trim for blanks
trim(s) == TrimEnd(SkipSpace(s))

\* x || d for text
OrText(v, d) == IF Truthy(v) THEN v ELSE d

\* a bound value is text or a number
TextParam(s) == [kind |-> "text", text |-> s, num |-> 0]
NumParam(n) == [kind |-> "num", text |-> EmptyStr, num |-> n]

\* '%' + text + '%'
Pattern(s) == <<37>> \o s \o <<37>>

\* the controller: filters, page, limit, sortBy and sortOrder taken from the
\* query string, each absent or empty one replaced by its default
Received(handler, q) ==
    [NoSearch EXCEPT
        !.stage = "received",
        !.handler = handler,
        !.query = q,
        !.filters = [k \in FilterKeys |-> OrText(q[k], EmptyStr)],
        !.page = OrDefault(parseInt(q.page), 1),
        !.limit = MathMin(OrDefault(parseInt(q.limit), 10), 50),
        !.sortBy = IF q.sortBy = "" THEN "created_at" ELSE q.sortBy,
        !.sortOrder = OrText(q.sortOrder, DESC)]

searchCompanies_receive(handler, queries) ==
    /\ search.stage \in {"none", "done"}
    /\ \E q \in queries : search' = Received(handler, q)
    /\ UNCHANGED <<table, nextId, now, pc, op, ts, oldProfile, pend, ret, err,
                   outcome, issued, client, txn, released, poolOpen, cleanup, otp>>

\* columns that the predicate of a filter names
FilterColumns(k) == IF k = "search" THEN {"company_name", "description"} ELSE {k}

\* whereConditions, queryParams and paramCounter after the filters keys have
\* been looked at in turn: a filter that is not blank after trim() adds one
\* predicate on placeholder $paramCounter and one bound pattern
RECURSIVE BuildWhere(_, _, _)
BuildWhere(keys, filters, acc) ==
    IF keys = <<>> THEN acc
    ELSE LET k == Head(keys) IN
         IF trim(filters[k]) # EmptyStr
            THEN BuildWhere(Tail(keys), filters,
                    [whereConditions |-> Append(acc.whereConditions,
                                            [columns |-> FilterColumns(k),
                                             placeholder |-> acc.paramCounter]),
                     queryParams |-> Append(acc.queryParams,
                                            TextParam(Pattern(trim(filters[k])))),
                     paramCounter |-> acc.paramCounter + 1])
            ELSE BuildWhere(Tail(keys), filters, acc)

allowedSortFields ==
    {"company_name", "city", "state", "country", "industry", "created_at",
     "updated_at"}

validSortBy(sortBy) == IF sortBy \in allowedSortFields THEN sortBy ELSE "created_at"

validSortOrder(sortOrder) ==
    IF toUpperCase(sortOrder) \in {ASC, DESC} THEN toUpperCase(sortOrder) ELSE DESC

\* as CountParams, dropping the offset only
CountParams_keepsLimit(queryParams) == SubSeq(queryParams, 1, Len(queryParams) - 1)

\* queryParams.slice(0, -2)
CountParams(queryParams) == SubSeq(queryParams, 1, Len(queryParams) - 2)

\* the service up to the two statements: offset, WHERE clause, ORDER BY from
\* the validated sort, LIMIT and OFFSET on the next two placeholders, the count
\* statement on the same WHERE clause
searchCompanies_build ==
    /\ search.stage = "received" /\ search.handler = "service"
    /\ LET built == BuildWhere(FilterOrder, search.filters,
                               [whereConditions |-> <<>>, queryParams |-> <<>>,
                                paramCounter |-> 1])
           offset == (search.page - 1) * search.limit
           used == {built.whereConditions[i].placeholder :
                       i \in DOMAIN built.whereConditions}
           queryParams == built.queryParams \o
                              <<NumParam(search.limit), NumParam(offset)>>
       IN search' = [search EXCEPT
                        !.stage = "built",
                        !.offset = offset,
                        !.whereConditions = built.whereConditions,
                        !.queryParams = queryParams,
                        !.countParams = CountParams(queryParams),
                        !.dataPlaceholders =
                            used \cup {built.paramCounter, built.paramCounter + 1},
                        !.countPlaceholders = used,
                        !.orderBy = [field |-> validSortBy(search.sortBy),
                                     direction |-> validSortOrder(search.sortOrder)]]
    /\ UNCHANGED <<table, nextId, now, pc, op, ts, oldProfile, pend, ret, err,
                   outcome, issued, client, txn, released, poolOpen, cleanup, otp>>

\* --------------------------------------------- searchCompanies, the queries
\* text LIKE pattern: % stands for any text, _ for any one character, a
\* backslash takes the next character literally
RECURSIVE Like(_, _)
Like(text, pattern) ==
    IF pattern = <<>> THEN text = <<>>
    ELSE IF Head(pattern) = 37
       THEN Like(text, Tail(pattern)) \/ (text # <<>> /\ Like(Tail(text), pattern))
    ELSE IF Head(pattern) = 95
       THEN text # <<>> /\ Like(Tail(text), Tail(pattern))
    ELSE IF Head(pattern) = 92 /\ Len(pattern) > 1
       THEN /\ text # <<>> /\ Head(text) = pattern[2]
            /\ Like(Tail(text), Tail(Tail(pattern)))
    ELSE text # <<>> /\ Head(text) = Head(pattern) /\ Like(Tail(text), Tail(pattern))

\* value ILIKE pattern; not true of NULL
ILike(value, pattern) == value # NULL /\ Like(Lower(value), Lower(pattern))

\* the store rejects a statement whose bound values are not as many as its
\* highest placeholder
Bindable(placeholders, params) ==
    /\ \A n \in placeholders : n <= Len(params)
    /\ \A i \in DOMAIN params : i \in placeholders

\* rows of tbl that every predicate of the WHERE clause holds of
Where(tbl, whereConditions, params) ==
    {row \in tbl :
        \A i \in DOMAIN whereConditions :
            LET cond == whereConditions[i] IN
            \E c \in cond.columns : ILike(row[c], params[cond.placeholder].text)}

RECURSIVE SeqLess(_, _)
SeqLess(a, b) ==
    IF b = <<>> THEN FALSE
    ELSE IF a = <<>> THEN TRUE
    ELSE Head(a) < Head(b) \/ (Head(a) = Head(b) /\ SeqLess(Tail(a), Tail(b)))

NumberColumns == {"id", "owner_id", "created_at", "updated_at"}

KeyLess(a, b, field) == IF field \in NumberColumns THEN a < b ELSE SeqLess(a, b)

\* row a comes before row b under ORDER BY field direction; rows with equal
\* keys are taken in the order of their ids
Before(a, b, orderBy) ==
    LET f == orderBy.field IN
    \/ a[f] = b[f] /\ a.id < b.id
    \/ /\ a[f] # b[f]
       /\ IF toUpperCase(orderBy.direction) = ASC
             THEN KeyLess(a[f], b[f], f) ELSE KeyLess(b[f], a[f], f)

\* ids of the rows that ORDER BY ... LIMIT limit OFFSET offset returns
PageOf(rows, orderBy, limit, offset) ==
    {row.id : row \in
        {x \in rows :
            LET position == 1 + Cardinality({o \in rows : Before(o, x, orderBy)})
            IN position > offset /\ position <= offset + limit}}

Failed(srch) == [srch EXCEPT !.stage = "done", !.status = errorHandler(StoreError)]

\* the data statement of Promise.all, reading what is committed when it runs
searchCompanies_dataQuery ==
    /\ search.stage \in {"built", "counted"}
    /\ IF \/ search.limit < 0 \/ search.offset < 0
          \/ ~Bindable(search.dataPlaceholders, search.queryParams)
          THEN search' = Failed(search)
          ELSE search' = [search EXCEPT
                  !.stage = IF search.stage = "built" THEN "paged" ELSE "queried",
                  !.companies = PageOf(Where(table, search.whereConditions,
                                             search.queryParams),
                                       search.orderBy, search.limit, search.offset)]
    /\ UNCHANGED <<table, nextId, now, pc, op, ts, oldProfile, pend, ret, err,
                   outcome, issued, client, txn, released, poolOpen, cleanup, otp>>

\* the count statement of Promise.all, reading what is committed when it runs
searchCompanies_countQuery ==
    /\ search.stage \in {"built", "paged"}
    /\ IF ~Bindable(search.countPlaceholders, search.countParams)
          THEN search' = Failed(search)
          ELSE search' = [search EXCEPT
                  !.stage = IF search.stage = "built" THEN "counted" ELSE "queried",
                  !.totalRecords = Cardinality(Where(table, search.whereConditions,
                                                     search.countParams))]
    /\ UNCHANGED <<table, nextId, now, pc, op, ts, oldProfile, pend, ret, err,
                   outcome, issued, client, txn, released, poolOpen, cleanup, otp>>

\* ------------------------------ CompanyController.searchCompanies (src/)
LiveFilterColumns(k) ==
    IF k = "search" THEN {"company_name", "description", "industry"} ELSE {k}

\* as BuildWhere, for every filter that is truthy, untrimmed
RECURSIVE LiveWhere(_, _, _)
LiveWhere(keys, filters, acc) ==
    IF keys = <<>> THEN acc
    ELSE LET k == Head(keys) IN
         IF filters[k] # EmptyStr
            THEN LiveWhere(Tail(keys), filters,
                    [whereConditions |-> Append(acc.whereConditions,
                                            [columns |-> LiveFilterColumns(k),
                                             placeholder |-> acc.paramCount]),
                     queryParams |-> Append(acc.queryParams,
                                            TextParam(Pattern(filters[k]))),
                     paramCount |-> acc.paramCount + 1])
            ELSE LiveWhere(Tail(keys), filters, acc)

\* WHERE clause, then the count statement, awaited
searchCompanies_live_count ==
    /\ search.stage = "received" /\ search.handler = "live"
    /\ LET built == LiveWhere(FilterOrder, search.filters,
                              [whereConditions |-> <<>>, queryParams |-> <<>>,
                               paramCount |-> 1])
           used == {built.whereConditions[i].placeholder :
                       i \in DOMAIN built.whereConditions}
       IN search' = [search EXCEPT
                        !.stage = "liveCounted",
                        !.whereConditions = built.whereConditions,
                        !.countParams = built.queryParams,
                        !.countPlaceholders = used,
                        !.totalRecords =
                            Cardinality(Where(table, built.whereConditions,
                                              built.queryParams))]
    /\ UNCHANGED <<table, nextId, now, pc, op, ts, oldProfile, pend, ret, err,
                   outcome, issued, client, txn, released, poolOpen, cleanup, otp>>

\* the data statement, ordered by pagination.sortBy and pagination.sortOrder as
\* the query string gave them; the store rejects a column or a direction it
\* does not know, and a negative LIMIT or OFFSET; else 200 with the page
searchCompanies_live_data ==
    /\ search.stage = "liveCounted"
    /\ LET offset == (search.page - 1) * search.limit
           paramCount == Len(search.countParams) + 1
           queryParams == search.countParams \o
                              <<NumParam(search.limit), NumParam(offset)>>
           orderBy == [field |-> search.sortBy, direction |-> search.sortOrder]
           sent == [search EXCEPT
                       !.offset = offset,
                       !.queryParams = queryParams,
                       !.dataPlaceholders =
                           search.countPlaceholders \cup {paramCount, paramCount + 1},
                       !.orderBy = orderBy]
       IN IF \/ orderBy.field \notin Columns
             \/ toUpperCase(orderBy.direction) \notin {ASC, DESC}
             \/ search.limit < 0 \/ offset < 0
             THEN search' = Failed(sent)
             ELSE search' = [sent EXCEPT
                     !.stage = "done",
                     !.companies = PageOf(Where(table, search.whereConditions,
                                                queryParams),
                                          orderBy, search.limit, offset),
                     !.totalPages = MathCeil(search.totalRecords, search.limit),
                     !.status = 200]
    /\ UNCHANGED <<table, nextId, now, pc, op, ts, oldProfile, pend, ret, err,
                   outcome, issued, client, txn, released, poolOpen, cleanup, otp>>

\* ------------------------------------------------- FirebaseAuthService, OTP
\* 5 * 60 * 1000 ms, in minutes
OtpTtl == 5

\* values the mock OTP may take
Codes == {1, 2}

\* entries of global.otpStore under verificationId
Stored(verificationId) == {e \in otp.otpStore : e.verificationId = verificationId}

\* a verification id of its own for every call, the mock OTP drawn at random;
\* the entry expires 5 minutes after Date.now()
sendSMSOTP ==
    /\ otp.sent < MaxOtp
    /\ \E mockOTP \in Codes :
          LET verificationId == otp.sent + 1 IN
          otp' = [otp EXCEPT
                     !.otpStore = (otp.otpStore \ Stored(verificationId)) \cup
                                     {[verificationId |-> verificationId,
                                       otp |-> mockOTP,
                                       expires |-> otp.now + OtpTtl]},
                     !.sent = verificationId,
                     !.result = [call |-> "send", verificationId |-> verificationId,
                                 otp |-> mockOTP, outcome |-> "sent"]]
    /\ UNCHANGED <<table, nextId, now, pc, op, ts, oldProfile, pend, ret, err,
                   outcome, issued, client, txn, released, poolOpen, cleanup, search>>

\* as Verification, the entry kept after a verification that succeeds
Verification_keepsEntry(verificationId, code) ==
    LET storedOTP == Stored(verificationId) IN
    IF storedOTP = {}
       THEN [outcome |-> "Invalid or expired verification ID", delete |-> FALSE]
    ELSE IF \E e \in storedOTP : otp.now > e.expires
       THEN [outcome |-> "OTP has expired", delete |-> TRUE]
    ELSE IF \E e \in storedOTP : e.otp # code
       THEN [outcome |-> "Invalid OTP", delete |-> FALSE]
    ELSE [outcome |-> "verified", delete |-> FALSE]

\* what verifySMSOTP throws or returns, and whether it deletes the entry
Verification(verificationId, code) ==
    LET storedOTP == Stored(verificationId) IN
    IF storedOTP = {}
       THEN [outcome |-> "Invalid or expired verification ID", delete |-> FALSE]
    ELSE IF \E e \in storedOTP : otp.now > e.expires
       THEN [outcome |-> "OTP has expired", delete |-> TRUE]
    ELSE IF \E e \in storedOTP : e.otp # code
       THEN [outcome |-> "Invalid OTP", delete |-> FALSE]
    ELSE [outcome |-> "verified", delete |-> TRUE]

verifySMSOTP ==
    /\ \E verificationId \in 1..MaxOtp, code \in Codes :
          LET v == Verification(verificationId, code) IN
          otp' = [otp EXCEPT
                     !.otpStore = IF v.delete THEN otp.otpStore \ Stored(verificationId)
                                              ELSE otp.otpStore,
                     !.result = [call |-> "verify", verificationId |-> verificationId,
                                 otp |-> code, outcome |-> v.outcome]]
    /\ UNCHANGED <<table, nextId, now, pc, op, ts, oldProfile, pend, ret, err,
                   outcome, issued, client, txn, released, poolOpen, cleanup, search>>

\* a minute passes
Date_now ==
    /\ otp.now < MaxTime
    /\ otp' = [otp EXCEPT !.now = otp.now + 1]
    /\ UNCHANGED <<table, nextId, now, pc, op, ts, oldProfile, pend, ret, err,
                   outcome, issued, client, txn, released, poolOpen, cleanup, search>>

\* ------------------------------------------------------------------ spec
\* one step of request r
Act(r) ==
    \/ createCompanyProfile_begin(r)
    \/ createCompanyProfile_select(r)
    \/ createCompanyProfile_insert(r)
    \/ createCompanyProfile_commit(r)
    \/ createCompanyProfile_rollback(r)
    \/ updateProfile_begin(r)
    \/ updateProfile_namecheck(r)
    \/ updateCompanyProfile_select(r)
    \/ updateCompanyProfile_update(r)
    \/ updateCompanyProfile_commit(r)
    \/ updateCompanyProfile_rollback(r)
    \/ updateCompanyImage_begin(r)
    \/ updateCompanyImage_query(r)
    \/ deleteCompanyProfile_begin(r)
    \/ deleteCompanyProfile_select(r)
    \/ deleteCompanyProfile_delete(r)
    \/ deleteCompanyProfile_commit(r)
    \/ deleteCompanyProfile_rollback(r)
    \/ getCompanyProfileByUserId_begin(r)
    \/ getCompanyProfileByUserId_query(r)
    \/ deleteImage_settle(r)

\* requests interleave at every suspension point
Next == \E r \in Reqs : Act(r)

Spec == Init /\ [][Next]_vars

\* requests run one at a time: none takes a step while another is in flight
InFlight(r) == pc[r] \notin {"idle", "done"}

Alone(r) == \A r2 \in Reqs \ {r} : ~InFlight(r2)

SeqNext ==
    \/ \E r \in Reqs : Alone(r) /\ createCompanyProfile_begin(r)
    \/ \E r \in Reqs : Alone(r) /\ createCompanyProfile_select(r)
    \/ \E r \in Reqs : Alone(r) /\ createCompanyProfile_insert(r)
    \/ \E r \in Reqs : Alone(r) /\ createCompanyProfile_commit(r)
    \/ \E r \in Reqs : Alone(r) /\ createCompanyProfile_rollback(r)
    \/ \E r \in Reqs : Alone(r) /\ updateProfile_begin(r)
    \/ \E r \in Reqs : Alone(r) /\ updateProfile_namecheck(r)
    \/ \E r \in Reqs : Alone(r) /\ updateCompanyProfile_select(r)
    \/ \E r \in Reqs : Alone(r) /\ updateCompanyProfile_update(r)
    \/ \E r \in Reqs : Alone(r) /\ updateCompanyProfile_commit(r)
    \/ \E r \in Reqs : Alone(r) /\ updateCompanyProfile_rollback(r)
    \/ \E r \in Reqs : Alone(r) /\ updateCompanyImage_begin(r)
    \/ \E r \in Reqs : Alone(r) /\ updateCompanyImage_query(r)
    \/ \E r \in Reqs : Alone(r) /\ deleteCompanyProfile_begin(r)
    \/ \E r \in Reqs : Alone(r) /\ deleteCompanyProfile_select(r)
    \/ \E r \in Reqs : Alone(r) /\ deleteCompanyProfile_delete(r)
    \/ \E r \in Reqs : Alone(r) /\ deleteCompanyProfile_commit(r)
    \/ \E r \in Reqs : Alone(r) /\ deleteCompanyProfile_rollback(r)
    \/ \E r \in Reqs : Alone(r) /\ getCompanyProfileByUserId_begin(r)
    \/ \E r \in Reqs : Alone(r) /\ getCompanyProfileByUserId_query(r)
    \/ \E r \in Reqs : deleteImage_settle(r)

SpecSeq == Init /\ [][SeqNext]_vars

\* the transactional operations and the read interleave, and any statement of
\* a transaction may fail
FailNext ==
    \/ \E r \in Reqs : createCompanyProfile_begin(r)
    \/ \E r \in Reqs : createCompanyProfile_select(r)
    \/ \E r \in Reqs : createCompanyProfile_insert(r)
    \/ \E r \in Reqs : createCompanyProfile_commit(r)
    \/ \E r \in Reqs : createCompanyProfile_rollback(r)
    \/ \E r \in Reqs : updateProfile_begin(r)
    \/ \E r \in Reqs : updateProfile_namecheck(r)
    \/ \E r \in Reqs : updateCompanyProfile_select(r)
    \/ \E r \in Reqs : updateCompanyProfile_update(r)
    \/ \E r \in Reqs : updateCompanyProfile_commit(r)
    \/ \E r \in Reqs : updateCompanyProfile_rollback(r)
    \/ \E r \in Reqs : deleteCompanyProfile_begin(r)
    \/ \E r \in Reqs : deleteCompanyProfile_select(r)
    \/ \E r \in Reqs : deleteCompanyProfile_delete(r)
    \/ \E r \in Reqs : deleteCompanyProfile_commit(r)
    \/ \E r \in Reqs : deleteCompanyProfile_rollback(r)
    \/ \E r \in Reqs : getCompanyProfileByUserId_begin(r)
    \/ \E r \in Reqs : getCompanyProfileByUserId_query(r)
    \/ \E r \in Reqs : BEGIN_fails(r)
    \/ \E r \in Reqs : query_fails(r)
    \/ \E r \in Reqs : ROLLBACK_fails(r)

SpecFail == Init /\ [][FailNext]_vars

\* profiles are created through the service and updated through the
\* controller under src/
LiveNext ==
    \/ \E r \in Reqs : createCompanyProfile_begin(r)
    \/ \E r \in Reqs : createCompanyProfile_select(r)
    \/ \E r \in Reqs : createCompanyProfile_insert(r)
    \/ \E r \in Reqs : createCompanyProfile_commit(r)
    \/ \E r \in Reqs : createCompanyProfile_rollback(r)
    \/ \E r \in Reqs : updateProfile_live_begin(r)
    \/ \E r \in Reqs : updateProfile_live_check(r)
    \/ \E r \in Reqs : updateProfile_live_update(r)
    \/ \E r \in Reqs : updateProfile_live_commit(r)
    \/ \E r \in Reqs : updateProfile_live_rollback(r)

SpecLive == Init /\ [][LiveNext]_vars

\* profiles are created and deleted while images are uploaded
UploadNext ==
    \/ \E r \in Reqs : createCompanyProfile_begin(r)
    \/ \E r \in Reqs : createCompanyProfile_select(r)
    \/ \E r \in Reqs : createCompanyProfile_insert(r)
    \/ \E r \in Reqs : createCompanyProfile_commit(r)
    \/ \E r \in Reqs : createCompanyProfile_rollback(r)
    \/ \E r \in Reqs : deleteCompanyProfile_begin(r)
    \/ \E r \in Reqs : deleteCompanyProfile_select(r)
    \/ \E r \in Reqs : deleteCompanyProfile_delete(r)
    \/ \E r \in Reqs : deleteCompanyProfile_commit(r)
    \/ \E r \in Reqs : deleteCompanyProfile_rollback(r)
    \/ \E r \in Reqs : uploadImage_begin(r)
    \/ \E r \in Reqs : uploadImage_getProfile(r)
    \/ \E r \in Reqs : uploadImage_upload(r)
    \/ \E r \in Reqs : uploadImage_setImage(r)
    \/ \E r \in Reqs : deleteImage_settle(r)

SpecUpload == Init /\ [][UploadNext]_vars

\* searches, one after the other, over a store that is not written meanwhile
SearchNext ==
    \/ searchCompanies_begin
    \/ searchCompanies_query
    \/ searchCompanies_result

SpecSearch == Init /\ [][SearchNext]_vars

\* query strings that differ in the filters they carry and in the sort they
\* ask for: each filter absent or "a", sortBy absent, allowed or "password",
\* sortOrder absent, "asc", "Desc" or "x"
StatementQueries ==
    {[NoQuery EXCEPT !.search = f[1], !.industry = f[2], !.city = f[3],
                     !.state = f[4], !.country = f[5],
                     !.sortBy = sortBy, !.sortOrder = sortOrder] :
        f \in [1..5 -> {UNDEF, <<97>>}],
        sortBy \in {"", "company_name", "password"},
        sortOrder \in {UNDEF, <<97, 115, 99>>, <<68, 101, 115, 99>>, <<120>>}}

\* searches through the service and through the controller of src/, one after
\* the other, over a store that is not written
StatementNext ==
    \/ searchCompanies_receive("service", StatementQueries)
    \/ searchCompanies_receive("live", StatementQueries)
    \/ searchCompanies_build
    \/ searchCompanies_dataQuery
    \/ searchCompanies_countQuery
    \/ searchCompanies_result
    \/ searchCompanies_live_count
    \/ searchCompanies_live_data

SpecStatement == Init /\ [][StatementNext]_vars

\* query strings that differ in their filters: none; search "a"; search "d"
\* with city "p"; a blank city; industry "i" with city "x"; search "_"
FilterQueries ==
    {NoQuery,
     [NoQuery EXCEPT !.search = <<97>>],
     [NoQuery EXCEPT !.search = <<100>>, !.city = <<112>>],
     [NoQuery EXCEPT !.city = <<32>>],
     [NoQuery EXCEPT !.industry = <<105>>, !.city = <<120>>],
     [NoQuery EXCEPT !.search = <<95>>]}

\* searches through the service while profiles are created
FilterNext ==
    \/ \E r \in Reqs : createCompanyProfile_begin(r)
    \/ \E r \in Reqs : createCompanyProfile_select(r)
    \/ \E r \in Reqs : createCompanyProfile_insert(r)
    \/ \E r \in Reqs : createCompanyProfile_commit(r)
    \/ \E r \in Reqs : createCompanyProfile_rollback(r)
    \/ searchCompanies_receive("service", FilterQueries)
    \/ searchCompanies_build
    \/ searchCompanies_dataQuery
    \/ searchCompanies_countQuery
    \/ searchCompanies_result

SpecFilter == Init /\ [][FilterNext]_vars

\* profiles are created and read, one request at a time
RoundTripNext ==
    \/ \E r \in Reqs : Alone(r) /\ createCompanyProfile_begin(r)
    \/ \E r \in Reqs : Alone(r) /\ createCompanyProfile_select(r)
    \/ \E r \in Reqs : Alone(r) /\ createCompanyProfile_insert(r)
    \/ \E r \in Reqs : Alone(r) /\ createCompanyProfile_commit(r)
    \/ \E r \in Reqs : Alone(r) /\ createCompanyProfile_rollback(r)
    \/ \E r \in Reqs : Alone(r) /\ getCompanyProfileByUserId_begin(r)
    \/ \E r \in Reqs : Alone(r) /\ getCompanyProfileByUserId_query(r)

SpecRoundTrip == Init /\ [][RoundTripNext]_vars

\* OTPs are sent and verified while time passes
OtpNext ==
    \/ sendSMSOTP
    \/ verifySMSOTP
    \/ Date_now

SpecOtp == Init /\ [][OtpNext]_vars

\* ------------------------------------------------------------------ claims
\* request r moves from one suspension point to another in this step
Step(r, from, to) == pc[r] = from /\ pc'[r] = to

Done(r, kind) == pc[r] = "done" /\ op[r].kind = kind

OwnerRows(userId) == {row \in table : row.owner_id = userId}

\* the allow-list of the partial update as the specification gives it
AllowList ==
    {"company_name", "address", "city", "state", "country", "postal_code",
     "website", "logo_url", "banner_url", "industry", "founded_date",
     "description", "social_links"}

\* C1: in every reachable state there is at most one company_profile row per
\* owner_id.
C1_OneProfilePerOwner ==
    \A a \in table, b \in table : a.owner_id = b.owner_id => a = b

\* C2: a createCompanyProfile whose existence check runs while the owner has a
\* committed profile throws 409, is answered 409, and neither its check nor its
\* rollback changes the table or leaves a write pending.
C2_CreateAfterExistingConflicts ==
    [][\A r \in Reqs : op[r].kind = "create" =>
          /\ (pc[r] = "select" /\ pc'[r] # "select" /\ OwnerRows(op[r].userId) # {})
                => /\ pc'[r] = "rollback"
                   /\ err'[r].statusCode = 409
                   /\ pend'[r] = NoPend
                   /\ table' = table
          /\ (Step(r, "rollback", "done") /\ err[r].statusCode = 409)
                => /\ outcome'[r].status = 409
                   /\ pend'[r] = NoPend
                   /\ table' = table]_vars

C2_Witness ==
    \E r \in Reqs :
        /\ Done(r, "create")
        /\ outcome[r].status = 409
        /\ OwnerRows(op[r].userId) # {}

\* C3: of the createCompanyProfile requests racing for one owner exactly one
\* succeeds: no two requests that created a profile for the same owner have both
\* been answered 201 with both their rows in the table.
C3_OneCreateSucceeds ==
    \A r1 \in Reqs, r2 \in Reqs :
        (/\ r1 # r2
         /\ Done(r1, "create") /\ Done(r2, "create")
         /\ op[r1].userId = op[r2].userId
         /\ outcome[r1].status = 201)
        => \/ outcome[r2].status = 409
           \/ ~({b.id : b \in outcome[r1].body \cup outcome[r2].body}
                    \subseteq {row.id : row \in table})

\* C4: no two rows of different owners have company_name values equal ignoring
\* case.
C4_NameUniqueIgnoringCase ==
    \A a \in table, b \in table :
        (a.owner_id # b.owner_id /\ a.company_name # NULL)
            => Lower(a.company_name) # Lower(b.company_name)

\* another owner's committed profile holds the name, compared ignoring case
HeldByOther(name, userId) ==
    \E row \in table :
        /\ row.owner_id # userId
        /\ row.company_name # NULL
        /\ Lower(row.company_name) = Lower(name)

\* C5: a create, or an update that carries company_name, does not go on to write
\* while another owner's profile holds that name ignoring case: it throws 409
\* and the table stays as it is.
C5_DuplicateNameConflicts ==
    [][\A r \in Reqs :
          (/\ op[r].kind \in {"create", "update"}
           /\ "company_name" \in DOMAIN op[r].data
           /\ pc[r] = "write" /\ pc'[r] # "write"
           /\ HeldByOther(op[r].data.company_name, op[r].userId))
          => /\ pc'[r] = "rollback"
             /\ err'[r].statusCode = 409
             /\ table' = table]_vars

\* row n is row old with exactly the allow-listed fields present in updateData
\* set to the payload's values and updated_at set to t
PartialUpdateOf(old, n, updateData, t) ==
    /\ n.id = old.id
    /\ \A c \in Columns :
          IF c \in AllowList /\ c \in DOMAIN updateData THEN n[c] = updateData[c]
          ELSE IF c = "updated_at" THEN n[c] = t
          ELSE n[c] = old[c]

\* C6: the UPDATE of updateCompanyProfile writes, for every row of the owner, a
\* version that differs from it in exactly the allow-listed fields present in
\* the payload and updated_at; its COMMIT replaces each such row by that
\* version and leaves every other row as it is.
C6_PartialUpdate ==
    [][\A r \in Reqs : op[r].kind = "update" =>
          /\ Step(r, "write", "commit") =>
                /\ \A old \in OwnerRows(op[r].userId) :
                      \E n \in pend'[r].upd :
                          PartialUpdateOf(old, n, op[r].data, ts[r])
                /\ \A n \in pend'[r].upd :
                      \E old \in OwnerRows(op[r].userId) : n.id = old.id
                /\ ret'[r] \subseteq pend'[r].upd
                /\ table' = table
          /\ Step(r, "commit", "done") =>
                /\ \A n \in pend[r].upd :
                      /\ n \in table'
                      /\ \E old \in table :
                            PartialUpdateOf(old, n, op[r].data, ts[r])
                /\ \A old \in table :
                      \/ old \in table'
                      \/ \E n \in pend[r].upd : n.id = old.id
                /\ \A n \in table' : n \in pend[r].upd \/ n \in table
                /\ outcome'[r].status = 200
                /\ outcome'[r].body = ret[r]]_vars

C6_Witness ==
    \E r \in Reqs :
        /\ Done(r, "update")
        /\ outcome[r].status = 200
        /\ op[r].data = [city |-> CityX]
        /\ \E row \in table :
              /\ row \in outcome[r].body
              /\ row.city = CityX
              /\ row.company_name = NameUpper
              /\ row.logo_url = ImgA
              /\ row.updated_at # row.created_at

\* C7: an update never changes id, owner_id or created_at of a row; keys outside
\* the allow-list raise no error when the payload has an allow-listed key and
\* the profile exists; the columns in the SET clause are allow-listed fields and
\* updated_at only.
C7_ProtectedColumns ==
    [][\A r \in Reqs : op[r].kind = "update" =>
          /\ (/\ pc[r] = "select" /\ pc'[r] # "select"
              /\ OwnerRows(op[r].userId) # {}
              /\ DOMAIN op[r].data \cap AllowList # {})
                => pc'[r] = "write" /\ err'[r] = NoErr
          /\ Step(r, "write", "commit") =>
                /\ UpdateColumns(op[r].data) \cup {"updated_at"}
                      \subseteq AllowList \cup {"updated_at"}
                /\ \A old \in OwnerRows(op[r].userId) :
                      \E n \in pend'[r].upd :
                          /\ n.id = old.id
                          /\ n.owner_id = old.owner_id
                          /\ n.created_at = old.created_at
          /\ Step(r, "commit", "done") =>
                /\ \A old \in table :
                      \E n \in table' :
                          /\ n.id = old.id
                          /\ n.owner_id = old.owner_id
                          /\ n.created_at = old.created_at
                /\ Cardinality(table') = Cardinality(table)
                /\ outcome'[r].status = 200]_vars

C7_Witness ==
    \E r \in Reqs :
        /\ Done(r, "update")
        /\ outcome[r].status = 200
        /\ "owner_id" \in DOMAIN op[r].data
        /\ op[r].data.owner_id # op[r].userId
        /\ \E row \in table :
              /\ row \in outcome[r].body
              /\ row.owner_id = op[r].userId
              /\ row.city = CityX

\* C8 as stated: every updateCompanyProfile whose payload has no allow-listed
\* key is answered 400.
C8_AlwaysInvalidArgument ==
    \A r \in Reqs :
        (Done(r, "update") /\ DOMAIN op[r].data \cap AllowList = {})
            => outcome[r].status = 400

\* C8 amended: an updateCompanyProfile whose payload has no allow-listed key
\* throws 400 when its existence check finds the owner's profile and 404 when it
\* finds none; it is answered with that status, writes nothing and the table
\* stays as it is.
C8_NoAllowedKey ==
    [][\A r \in Reqs :
          (op[r].kind = "update" /\ DOMAIN op[r].data \cap AllowList = {}) =>
              /\ (pc[r] = "select" /\ pc'[r] # "select")
                    => /\ pc'[r] = "rollback"
                       /\ err'[r].statusCode =
                              IF OwnerRows(op[r].userId) # {} THEN 400 ELSE 404
                       /\ pend'[r] = NoPend
                       /\ table' = table
              /\ (pc[r] = "rollback" /\ pc'[r] # "rollback")
                    => /\ pc'[r] = "done"
                       /\ outcome'[r].status = err[r].statusCode
                       /\ outcome'[r].status \in {400, 404}
                       /\ table' = table]_vars

C8_Witness ==
    \E r \in Reqs :
        /\ Done(r, "update")
        /\ op[r].data = [owner_id |-> 999]
        /\ outcome[r].status = 400
        /\ OwnerRows(op[r].userId) # {}

\* C9: an update, delete or image update that is applied while the owner has no
\* profile is answered 404: it is not answered with success and the table stays
\* as it is.
C9_NotFoundWhenAbsent ==
    [][\A r \in Reqs :
          /\ (/\ op[r].kind \in {"update", "delete"}
              /\ Step(r, "commit", "done")
              /\ pend[r].upd = {} /\ pend[r].del = {})
                => outcome'[r].status = 404 /\ table' = table
          /\ (/\ op[r].kind = "image"
              /\ Step(r, "query", "done")
              /\ op[r].imageType \in {"logo_url", "banner_url"}
              /\ OwnerRows(op[r].userId) = {})
                => outcome'[r].status = 404 /\ table' = table]_vars

\* C10: deleteCompanyProfile for an owner whose profile has logo_url A and
\* banner_url B returns exactly A and B and removes the row, and
\* getCompanyProfileByUserId for that owner then yields null.
C10_DeleteReturnsPriorImages ==
    [][\A r \in Reqs : op[r].kind = "delete" =>
          /\ Step(r, "select", "write") => OwnerRows(op[r].userId) # {}
          /\ Step(r, "commit", "done") =>
                /\ OwnerRows(op[r].userId) # {}
                /\ outcome'[r].status = 200
                /\ outcome'[r].body =
                       {[logo_url |-> row.logo_url, banner_url |-> row.banner_url] :
                            row \in OwnerRows(op[r].userId)}
                /\ Cardinality(outcome'[r].body) = 1
                /\ \A row \in table' : row.owner_id # op[r].userId
                /\ \A row \in table : row.owner_id # op[r].userId => row \in table'
                /\ ProfileByUserId(table', op[r].userId) = {}]_vars

C10_Witness ==
    \E r \in Reqs, g \in Reqs :
        /\ Done(r, "delete")
        /\ outcome[r].status = 200
        /\ outcome[r].body = {[logo_url |-> ImgA, banner_url |-> ImgB]}
        /\ Done(g, "get")
        /\ op[g].userId = op[r].userId
        /\ outcome[g].status = 404
        /\ outcome[g].body = {}

\* request r, holding a client, is answered in this step
Answered(r) == client[r] = "held" /\ pc[r] # "done" /\ pc'[r] = "done"

Success == {200, 201}

C12_ReleasedExactlyOnce ==
    [][/\ \A r \in Reqs :
             /\ client[r] = "held" => (released[r] = 0 /\ InFlight(r))
             /\ Answered(r) => (client'[r] = "none" /\ released'[r] = 1)
             /\ released'[r] # released[r] => (Answered(r) \/ released'[r] = 0)
             /\ released[r] <= 1
       /\ (\A r \in Reqs : ~InFlight(r)) => (\A r \in Reqs : client[r] = "none")]_vars

\* a domain error (404) was thrown, ROLLBACK failed too, and the client was
\* released once
C12_Witness ==
    \E r \in Reqs :
        /\ Done(r, "delete")
        /\ err[r] = ConnectionError
        /\ outcome[r].status = 500
        /\ client[r] = "none"
        /\ released[r] = 1

\* C14: a transactional operation that fails is answered with the status of
\* the error that made it fail, whether or not its ROLLBACK succeeds.
C14_ErrorKindPreserved ==
    [][\A r \in Reqs :
          (op[r].kind \in TxnKinds /\ Step(r, "rollback", "done"))
              => outcome'[r].status = errorHandler(err[r])]_vars

\* C13: no client is in the pool with a transaction still open on it: every
\* transaction a company-profile operation began was ended by COMMIT or
\* ROLLBACK before its client was released.
C13_NoOpenTransactionInPool == poolOpen = 0

\* the URLs request r has called deleteImage for
Requested(r) == {task.url : task \in cleanup[r]}

\* C15: a delete calls deleteImage only in the step in which its transaction
\* commits and it is answered with success; the URLs are the non-null
\* logo_url and banner_url its SELECT read from a row of the owner; a delete
\* whose SELECT found no profile, whose DELETE found no profile to remove, or
\* whose transaction is rolled back, calls deleteImage for nothing.
C15_CleanupAfterCommit ==
    [][\A r \in Reqs : op[r].kind = "delete" =>
          /\ Step(r, "select", "write") =>
                \E row \in OwnerRows(op[r].userId) :
                    oldProfile'[r] = {[logo_url |-> row.logo_url,
                                       banner_url |-> row.banner_url]}
          /\ (pc[r] = "select" /\ pc'[r] # "select" /\ OwnerRows(op[r].userId) = {})
                => pc'[r] = "rollback"
          /\ (InFlight(r) /\ Requested(r)' # {}) =>
                /\ Step(r, "commit", "done")
                /\ outcome'[r].status = 200
                /\ table' = Committed(table, pend[r])
                /\ \E o \in oldProfile[r] :
                       Requested(r)' = {o.logo_url, o.banner_url} \ {NULL}
          /\ (Step(r, "commit", "done") /\ pend[r].del = {}) => Requested(r)' = {}
          /\ Step(r, "rollback", "done") => Requested(r)' = {}]_vars

\* C16: the step that commits a delete answers 200 while every deleteImage
\* call it made is still pending or was skipped; when a call settles later,
\* with a result or an error, the response, the error, the table and the
\* position of every request stay as they are, settled calls stay as they
\* are, and no call is added.
C16_CleanupBestEffort ==
    [][\A r \in Reqs : op[r].kind = "delete" =>
          /\ Step(r, "commit", "done") =>
                /\ outcome'[r].status = 200
                /\ \A task \in cleanup'[r] : task.state \in {"pending", "skipped"}
          /\ (pc[r] = "done" /\ pc'[r] = "done" /\ cleanup'[r] # cleanup[r]) =>
                /\ outcome' = outcome /\ err' = err /\ table' = table /\ pc' = pc
                /\ Requested(r)' = Requested(r)
                /\ Cardinality(cleanup'[r]) = Cardinality(cleanup[r])
                /\ \A task \in cleanup[r] :
                       task.state # "pending" => task \in cleanup'[r]]_vars

C16_Witness ==
    \E r \in Reqs :
        /\ Done(r, "delete")
        /\ outcome[r].status = 200
        /\ \E task \in cleanup[r] : task.url = ImgA /\ task.state = "error"

\* C17: an upload calls deleteImage only in the step in which updateCompanyImage
\* stores the new URL in the owner's row and the upload is answered 200, and
\* only for the URL it read from the profile before; an upload that is
\* answered with an error, because validation, the file, the profile, the
\* upload to the media host or the UPDATE failed, has called deleteImage for
\* nothing and its last step leaves the table as it is.
C17_OldImageKeptUntilStored ==
    [][\A r \in Reqs : op[r].kind = "upload" =>
          /\ (InFlight(r) /\ Requested(r)' # {}) =>
                /\ Step(r, "setimage", "done")
                /\ outcome'[r].status = 200
                /\ \E row \in table' :
                       /\ row.owner_id = op[r].userId
                       /\ row[op[r].imageType] = op[r].imageUrl
                /\ \E o \in oldProfile[r] :
                       Requested(r)' = {o[op[r].imageType]} \ {NULL}
          /\ (InFlight(r) /\ pc'[r] = "done" /\ outcome'[r].status \notin Success) =>
                /\ Requested(r)' = {}
                /\ table' = table]_vars

C17_Witness ==
    \E r \in Reqs :
        /\ Done(r, "upload")
        /\ op[r].imageType = "logo_url"
        /\ outcome[r].status = 200
        /\ Requested(r) = {ImgA}
        /\ \E row \in OwnerRows(op[r].userId) : row.logo_url = ImgC

\* C18: updateCompanyImage called with a field other than logo_url and
\* banner_url is answered 400 and leaves the table and the clock of the store
\* as they are, no statement having been sent; called with one of the two, it
\* adds and removes no row, leaves the rows of other owners as they are, and in
\* the rows of its owner changes no column but that field and updated_at.
C18_ImageFieldRestricted ==
    [][\A r \in Reqs :
          (op[r].kind = "image" /\ Step(r, "query", "done")) =>
             IF op[r].imageType \notin {"logo_url", "banner_url"}
                THEN /\ outcome'[r].status = 400
                     /\ table' = table
                     /\ now' = now
                ELSE /\ {n.id : n \in table'} = {old.id : old \in table}
                     /\ \A n \in table' : \A old \in table :
                          n.id = old.id =>
                             \A c \in Columns :
                                n[c] # old[c] =>
                                   /\ old.owner_id = op[r].userId
                                   /\ c \in {op[r].imageType, "updated_at"}]_vars

C18_Witness ==
    \E r1, r2 \in Reqs :
        /\ Done(r1, "image") /\ Done(r2, "image")
        /\ op[r1].imageType = "company_name" /\ outcome[r1].status = 400
        /\ op[r2].imageType = "banner_url" /\ outcome[r2].status = 200
        /\ \E row \in OwnerRows(op[r2].userId) :
              row.banner_url = ImgC /\ row.logo_url = ImgA

Min(a, b) == IF a < b THEN a ELSE b
Max(a, b) == IF a > b THEN a ELSE b

\* C19: a search answered 200 with limit in 1..50 and page >= 1 over total
\* matching rows returns the least totalPages with totalPages * limit >= total,
\* hasNextPage exactly when page < totalPages, hasPrevPage exactly when
\* page > 1, and min(limit, max(0, total - (page - 1) * limit)) rows; with 25
\* matches and limit 10, pages 1, 3 and 4 hold 10, 5 and 0 rows.
C19_PaginationArithmetic ==
    (/\ search.stage = "done" /\ search.status = 200
     /\ search.limit \in 1..50 /\ search.page >= 1)
    => LET total == search.totalRecords
           limit == search.limit
           page == search.page
           count == Cardinality(search.companies)
       IN
       /\ total = search.matching
       /\ search.totalPages >= 0
       /\ search.totalPages * limit >= total
       /\ (search.totalPages - 1) * limit < total
       /\ search.hasNextPage = (page < search.totalPages)
       /\ search.hasPrevPage = (page > 1)
       /\ count = Min(limit, Max(0, total - (page - 1) * limit))
       /\ (total = 25 /\ limit = 10) =>
             /\ page = 1 => count = 10 /\ search.hasNextPage /\ ~search.hasPrevPage
             /\ page = 3 => count = 5 /\ ~search.hasNextPage /\ search.hasPrevPage
             /\ page = 4 => count = 0

C19_Witness ==
    /\ search.stage = "done" /\ search.status = 200
    /\ search.totalRecords = 25 /\ search.limit = 10 /\ search.page = 3
    /\ search.companies = 21..25
    /\ search.totalPages = 3

\* C20: whatever page and limit the query string carries, the page and limit
\* handed to the service and on to the search query satisfy page >= 1 and
\* 1 <= limit <= 50, and the offset computed from them is not negative.
C20_PageAndLimitInRange ==
    search.stage \in {"service", "queried", "done"} =>
        /\ search.page >= 1
        /\ search.limit >= 1 /\ search.limit <= 50
        /\ search.offset >= 0

\* C21: once a search has built its data statement, the column in ORDER BY is
\* the sortBy of the query string when that is one of company_name, city,
\* state, country, industry, created_at, updated_at and created_at otherwise,
\* the direction is the upper-cased sortOrder when that is ASC or DESC and DESC
\* otherwise, and the search has not failed.
C21_SortAllowListed ==
    search.orderBy.field # "" =>
        LET allowList == {"company_name", "city", "state", "country", "industry",
                          "created_at", "updated_at"}
            asked == search.query.sortOrder
        IN
        /\ search.orderBy.field =
              IF search.query.sortBy \in allowList
                 THEN search.query.sortBy ELSE "created_at"
        /\ search.orderBy.direction =
              IF asked # UNDEF /\ toUpperCase(asked) \in {ASC, DESC}
                 THEN toUpperCase(asked) ELSE DESC
        /\ search.status \in {0, 200}

Highest(numbers) ==
    IF numbers = {} THEN 0 ELSE CHOOSE n \in numbers : \A m \in numbers : m <= n

\* C25: once a search has built its statements, the count statement's values
\* are the data statement's values without the last two, which are limit and
\* offset; every predicate of the one WHERE clause finds the same value under
\* its placeholder in both lists; each statement has as many values as its
\* highest placeholder number; and there is one predicate for each filter the
\* query string carries.
C25_SameWhereSameParams ==
    search.queryParams # <<>> =>
        LET data == search.queryParams
            count == search.countParams
            n == Len(data)
        IN
        /\ n >= 2
        /\ count = SubSeq(data, 1, n - 2)
        /\ data[n - 1] = NumParam(search.limit)
        /\ data[n] = NumParam(search.offset)
        /\ \A i \in DOMAIN search.whereConditions :
              LET at == search.whereConditions[i].placeholder IN
              /\ at \in DOMAIN count
              /\ count[at] = data[at]
              /\ count[at].kind = "text"
        /\ Len(data) = Highest(search.dataPlaceholders)
        /\ Len(count) = Highest(search.countPlaceholders)
        /\ Len(search.whereConditions) =
              Cardinality({k \in FilterKeys : search.query[k] # UNDEF})

C25_Witness ==
    /\ search.stage = "done" /\ search.handler = "service" /\ search.status = 200
    /\ {k \in FilterKeys : search.query[k] # UNDEF} = {"search", "city", "country"}
    /\ Len(search.queryParams) = 5
    /\ Len(search.countParams) = 3
    /\ search.whereConditions[2] = [columns |-> {"city"}, placeholder |-> 2]

\* part occurs in text
Contains(text, part) ==
    \E i \in 0..(Len(text) - Len(part)) : SubSeq(text, i + 1, i + Len(part)) = part

\* rows of tbl that hold the text of filter k, letter case aside, in the
\* column of the filter, and for search in the name or in the description
Satisfying(tbl, k, text) ==
    {row \in tbl :
        \E c \in (IF k = "search" THEN {"company_name", "description"} ELSE {k}) :
            row[c] # NULL /\ Contains(Lower(row[c]), Lower(text))}

\* C22: the rows the data statement of a search returns are rows of the store
\* that contain, letter case aside, the trimmed text of every filter of the
\* query string that is not blank; when every filter is absent or blank and
\* the page is the first, with room for all rows, every row is returned.
C22_ConjunctiveFilters ==
    [][(search.stage \in {"built", "counted"} /\ search'.stage \in {"paged", "queried"}) =>
          LET asked == {k \in FilterKeys :
                           search.query[k] # UNDEF /\ trim(search.query[k]) # EmptyStr}
              eligible == {row \in table :
                              \A k \in asked :
                                 row \in Satisfying(table, k, trim(search.query[k]))}
          IN
          /\ search'.companies \subseteq {row.id : row \in eligible}
          /\ (asked = {} /\ search.offset = 0 /\ search.limit >= Cardinality(table))
                => search'.companies = {row.id : row \in table}]_vars

\* C26: when both statements of a search have returned, the rows of the page
\* are no more than max(0, totalRecords - offset), as they are when both
\* statements read the same state of the store, whatever commits meanwhile.
C26_PageWithinTotal ==
    (search.stage \in {"queried", "done"} /\ search.status \in {0, 200}
        /\ search.handler = "service") =>
        Cardinality(search.companies) <= Max(0, search.totalRecords - search.offset)

TakenByOther(name, userId) ==
    \E row \in table :
        /\ row.owner_id # userId
        /\ row.company_name # NULL
        /\ Lower(row.company_name) = Lower(name)

\* C24: the name check of an update reports the name taken, and the update is
\* refused with 409, exactly when a profile of another owner has that name,
\* letter case aside; the owner's own name in any letter case is available.
C24_NameAvailability ==
    [][\A r \in Reqs :
          /\ (op[r].kind = "update" /\ pc[r] = "namecheck" /\ pc'[r] # "namecheck") =>
                ((err'[r] = createError(409))
                    <=> TakenByOther(op[r].data.company_name, op[r].userId))
          /\ (/\ op[r].kind = "liveUpdate" /\ op[r].valid
              /\ pc[r] = "select" /\ pc'[r] # "select"
              /\ Truthy(Prop(op[r].data, "company_name"))) =>
                ((err'[r] = createError(409))
                    <=> TakenByOther(op[r].data.company_name, op[r].userId))]_vars

\* C27: when two uploads of the same image by the same owner have both been
\* answered 200, deleteImage has not been requested for the URL the profile
\* holds, and it has been requested for each of the two uploaded URLs that the
\* profile does not hold.
C27_NoOrphanedUpload ==
    \A r1, r2 \in Reqs :
        (/\ r1 # r2
         /\ Done(r1, "upload") /\ Done(r2, "upload")
         /\ outcome[r1].status = 200 /\ outcome[r2].status = 200
         /\ op[r1].userId = op[r2].userId
         /\ op[r1].imageType = op[r2].imageType)
        => \A row \in OwnerRows(op[r1].userId) :
              LET stored == row[op[r1].imageType]
                  requested == Requested(r1) \cup Requested(r2)
              IN
              /\ stored \notin requested
              /\ \A r \in {r1, r2} :
                    op[r].imageUrl # stored => op[r].imageUrl \in requested

\* C28: when the DELETE statement of deleteCompanyProfile runs, the logo_url
\* and banner_url that the request holds for cleanup are those of the rows the
\* statement deletes.
C28_DeleteReturnsUrlsAtDeletion ==
    [][\A r \in Reqs :
          (op[r].kind = "delete" /\ Step(r, "write", "commit")) =>
             \A row \in OwnerRows(op[r].userId) :
                [logo_url |-> row.logo_url, banner_url |-> row.banner_url]
                    \in oldProfile[r]]_vars

\* C29: a step of a request made with caller identity A adds, removes and
\* changes no row whose owner_id is not A, whatever the payload of the request
\* holds.
C29_OtherOwnersUntouched ==
    [][\A r \in Reqs :
          pc'[r] # pc[r] =>
             LET A == IF InFlight(r) THEN op[r].userId ELSE op'[r].userId IN
             /\ \A row \in table : row.owner_id # A => row \in table'
             /\ \A row \in table' : row.owner_id # A => row \in table]_vars

C29_Witness ==
    \E r \in Reqs :
        /\ Done(r, "update")
        /\ outcome[r].status = 200
        /\ "owner_id" \in DOMAIN op[r].data
        /\ \E row \in table : row.owner_id = op[r].userId /\ row.city = CityX
        /\ \E row \in table : row.owner_id # op[r].userId /\ row.city = CityP

\* the step is a call of verifySMSOTP
Verifies == otp'.result.call = "verify" /\ otp'.now = otp.now /\ otp'.sent = otp.sent

\* C30: a call of verifySMSOTP succeeds exactly when the store holds an entry
\* under the id whose OTP is the one given and whose expiry has not passed; a
\* call that succeeds, and a call made after the expiry of the entry, removes
\* the entry; a call with a wrong OTP before the expiry, and a call for an id
\* without entry, fails and leaves the store as it is; an entry is added only
\* by sendSMSOTP, under an id not issued before and expiring 5 minutes later.
\* So an id is verified at most once.
C30_OtpVerifiedAtMostOnce ==
    [][/\ Verifies =>
            LET id == otp'.result.verificationId
                code == otp'.result.otp
                entries == {e \in otp.otpStore : e.verificationId = id}
                removed == \A e \in otp'.otpStore : e.verificationId # id
                succeeds == otp'.result.outcome = "verified"
            IN
            /\ succeeds <=> \E e \in entries : e.otp = code /\ otp.now <= e.expires
            /\ succeeds => removed
            /\ (\E e \in entries : otp.now > e.expires) => removed
            /\ (entries = {} \/ \E e \in entries : otp.now <= e.expires /\ e.otp # code)
                  => otp'.otpStore = otp.otpStore
            /\ otp'.otpStore \subseteq otp.otpStore
       /\ \A e \in otp'.otpStore \ otp.otpStore :
            /\ e.verificationId > otp.sent
            /\ e.expires = otp.now + 5
            /\ otp'.result.call = "send"]_vars

C30_Witness ==
    /\ otp.result.call = "verify"
    /\ otp.result.verificationId = 1
    /\ otp.result.outcome = "Invalid or expired verification ID"
    /\ otp.sent = 2
    /\ otp.now < OtpTtl
    /\ \E e \in otp.otpStore : e.verificationId = 2

====
